---- MODULE Spec2Model ----
(***************************************************************************)
(* Model of the builder-space Pulumi programs.                             *)
(*                                                                         *)
(* One behaviour of the model is one run of one function or program of the *)
(* repository (prog), on inputs drawn in Init (args).  Every resource      *)
(* constructor call appends one record to resources, in program order;     *)
(* calls of func, sleeps and data-source lookups are recorded in events,   *)
(* pulumi.log calls in log.  result is what the function returned or       *)
(* raised.                                                                 *)
(*                                                                         *)
(* Calls into the provider SDK are total unless the code itself branches   *)
(* on their failure (the try/except blocks of resource_utils.py); Python   *)
(* expressions of the repository that raise (an index past the end of a    *)
(* list, a keyword passed twice) raise in the model too.  A formatted      *)
(* string f"{a}-x-{b}" is the sequence <<a, "-x-", b>> of its parts.       *)
(***************************************************************************)
EXTENDS Integers, Sequences, FiniteSets, TLC

VARIABLES prog, args, pc, idx, events, log, resources, result,
          attempt, delay, last_exception

vars == <<prog, args, pc, idx, events, log, resources, result,
          attempt, delay, last_exception>>

\* ---------------------------------------------------------------- bounds
MaxRetries == 3
MaxInitialDelay == 2
MaxSubnets == 3
MaxZones == 3

\* how many domains a stack is configured with
MaxDomains == 2

\* ------------------------------------------------------- shared notions
None == "None"

NoResult == [kind |-> "none"]

Returned(v) == [kind |-> "return", value |-> v]

Raised(e) == [kind |-> "raise", exc |-> e]

\* an optional argument: Python's None, or a value
NoneVal == [is_none |-> TRUE]

Some(x) == [is_none |-> FALSE, v |-> x]

\* values func can return and exceptions (instances of Exception) it can raise
FuncValues == {"V1", "V2"}

FuncExceptions == {"E1", "E2"}

\* the events of one kind, in order
SelectEv(kind) == SelectSeq(events, LAMBDA e : e.ev = kind)

\* ------------------------------------------------- retry_with_backoff
\* range(max_retries + 1)
RetryRangeOffByOne(max_retries) == 0 .. (max_retries + 1)

RetryRange(max_retries) == 0 .. max_retries

\* last_exception = e
KeepFirstException(prev, e) == IF prev = None THEN e ELSE prev

RecordException(prev, e) == e

\* delay *= 2
NextDelayConstant(d) == d

NextDelay(d) == d * 2

InitRetry ==
    /\ prog = "retry_with_backoff"
    /\ \E m \in -1 .. MaxRetries, d \in 0 .. MaxInitialDelay :
          /\ args = [max_retries |-> m, initial_delay |-> d]
          /\ delay = d
    /\ pc = "for"
    /\ idx = 0
    /\ attempt = 0
    /\ last_exception = None
    /\ events = << >> /\ log = << >> /\ resources = << >>
    /\ result = NoResult

\* try: return func()          -- func returns v
retry_func_returns(v) ==
    /\ prog = "retry_with_backoff" /\ pc = "for"
    /\ attempt \in RetryRange(args.max_retries)
    /\ events' = Append(events, [ev |-> "call", attempt |-> attempt,
                                 outcome |-> "return", val |-> v])
    /\ result' = Returned(v)
    /\ pc' = "done"
    /\ UNCHANGED <<idx, prog, args, log, resources, attempt, delay, last_exception>>

\* except Exception as e: ...  -- func raises e
retry_func_raises(e) ==
    /\ prog = "retry_with_backoff" /\ pc = "for"
    /\ attempt \in RetryRange(args.max_retries)
    /\ last_exception' = RecordException(last_exception, e)
    /\ IF attempt < args.max_retries
         THEN /\ log' = Append(log, "warn")
              /\ events' = events \o
                    << [ev |-> "call", attempt |-> attempt,
                        outcome |-> "raise", val |-> e],
                       [ev |-> "sleep", attempt |-> attempt,
                        outcome |-> "slept", val |-> delay] >>
              /\ delay' = NextDelay(delay)
         ELSE /\ log' = Append(log, "error")
              /\ events' = Append(events, [ev |-> "call", attempt |-> attempt,
                                           outcome |-> "raise", val |-> e])
              /\ delay' = delay
    /\ attempt' = attempt + 1
    /\ UNCHANGED <<idx, prog, args, pc, resources, result>>

\* raise last_exception        -- the loop is exhausted; raise None is a TypeError
retry_raise_last ==
    /\ prog = "retry_with_backoff" /\ pc = "for"
    /\ attempt \notin RetryRange(args.max_retries)
    /\ result' = Raised(IF last_exception = None THEN "TypeError" ELSE last_exception)
    /\ pc' = "done"
    /\ UNCHANGED <<idx, prog, args, events, log, resources, attempt, delay, last_exception>>

\* ------------------------------- check_*_exists and create_or_import_*
\* what the account holds under the looked-up name
Worlds == {"accessible", "missing", "forbidden"}

\* aws.s3.get_bucket_output / aws.dynamodb.get_table_output: the lookup
\* returns the resource when it exists and is accessible and raises otherwise
LookupOutcome(world) ==
    CASE world = "accessible" -> "found"
      [] world = "missing"    -> "NotFound"
      [] world = "forbidden"  -> "AccessDenied"

\* try: get_bucket_output(...); return True / except Exception: return False
check_s3_bucket_exists_propagating(world) ==
    IF LookupOutcome(world) = "AccessDenied"
      THEN Raised("AccessDenied")
      ELSE Returned(LookupOutcome(world) = "found")

check_s3_bucket_exists(world) ==
    IF LookupOutcome(world) = "found" THEN Returned(TRUE) ELSE Returned(FALSE)

\* try: get_table_output(...); return True / except Exception: return False
check_dynamodb_table_exists(world) ==
    IF LookupOutcome(world) = "found" THEN Returned(TRUE) ELSE Returned(FALSE)

CheckProgs == {"check_s3_bucket_exists", "check_dynamodb_table_exists"}

ImportProgs == {"create_or_import_s3_bucket", "create_or_import_dynamodb_table"}

IsS3(p) == p \in {"check_s3_bucket_exists", "create_or_import_s3_bucket"}

ResourceNames == {"bs-pulumi-state-bucket", "bs-pulumi-state-lock-table"}

PhysicalNames == {"bs-pulumi-state-af-south-1", "bs-pulumi-state-lock"}

\* a pulumi.ResourceOptions instance keeps every constructor parameter,
\* import_ among them, as an attribute, so its __dict__ has the key import_
UserOpts == Some([import_ |-> None, protect |-> TRUE])

OptsValues == {NoneVal, UserOpts}

\* opts.__dict__ if opts else {}
EmptyDict == [k \in {} |-> None]

OptsDict(opts) == IF opts.is_none THEN EmptyDict ELSE opts.v

\* f(**kw, **d): a keyword given twice is a TypeError
KwargsMerge(kw, d) ==
    IF (DOMAIN kw) \cap (DOMAIN d) # {} THEN Raised("TypeError") ELSE Returned(kw @@ d)

\* pulumi.ResourceOptions(import_=name, **(opts.__dict__ if opts else {}))
ImportOpts(name, opts) == KwargsMerge([import_ |-> name], OptsDict(opts))

\* attributes = [TableAttributeArgs(name=hash_key, type="S")] when None
TableAttributes(attributes, hash_key) ==
    IF attributes.is_none THEN << [name |-> hash_key, type |-> "S"] >>
                          ELSE attributes.v

InitCheck ==
    /\ prog \in CheckProgs
    /\ \E n \in PhysicalNames, w \in Worlds : args = [name |-> n, world |-> w]
    /\ pc = "try"
    /\ idx = 0
    /\ attempt = 0 /\ delay = 0 /\ last_exception = None
    /\ events = << >> /\ log = << >> /\ resources = << >>
    /\ result = NoResult

InitImport ==
    /\ prog \in ImportProgs
    /\ \E rn \in ResourceNames, n \in PhysicalNames, w \in Worlds,
          o \in OptsValues, t \in {None, "tags"},
          a \in {NoneVal, Some(<< [name |-> "LockID", type |-> "S"] >>)} :
          args = [resource_name |-> rn, name |-> n, world |-> w, opts |-> o,
                  tags |-> t,
                  billing_mode |-> "PAY_PER_REQUEST", hash_key |-> "LockID",
                  attributes |-> IF prog = "create_or_import_s3_bucket"
                                   THEN NoneVal ELSE a]
    /\ pc = "check"
    /\ idx = 0
    /\ attempt = 0 /\ delay = 0 /\ last_exception = None
    /\ events = << >> /\ log = << >> /\ resources = << >>
    /\ result = NoResult

LookupEvent == [ev |-> "lookup", attempt |-> 0,
                outcome |-> LookupOutcome(args.world),
                val |-> <<IF IsS3(prog) THEN "aws.s3.get_bucket_output"
                                      ELSE "aws.dynamodb.get_table_output",
                          args.name>>]

ExistsCheck == IF IsS3(prog) THEN check_s3_bucket_exists(args.world)
                             ELSE check_dynamodb_table_exists(args.world)

\* check_s3_bucket_exists(bucket_name) / check_dynamodb_table_exists(table_name)
check_exists ==
    /\ prog \in CheckProgs /\ pc = "try"
    /\ events' = Append(events, LookupEvent)
    /\ result' = ExistsCheck
    /\ pc' = "done"
    /\ UNCHANGED <<idx, prog, args, log, resources, attempt, delay, last_exception>>

\* if check_..._exists(name):   -- the existence check and the branch taken
create_or_import_check ==
    /\ prog \in ImportProgs /\ pc = "check"
    /\ events' = Append(events, LookupEvent)
    /\ IF ExistsCheck.kind = "raise"
         THEN /\ result' = ExistsCheck /\ pc' = "done" /\ log' = log
         ELSE /\ result' = result
              /\ pc' = IF ExistsCheck.value THEN "import" ELSE "create"
              /\ log' = Append(log, "info")
    /\ UNCHANGED <<idx, prog, args, resources, attempt, delay, last_exception>>

ResourceProps ==
    IF IsS3(prog)
      THEN [bucket |-> args.name, tags |-> args.tags]
      ELSE [name |-> args.name, billing_mode |-> args.billing_mode,
            hash_key |-> args.hash_key,
            attributes |-> TableAttributes(args.attributes, args.hash_key),
            tags |-> args.tags]

ResourceType == IF IsS3(prog) THEN "aws.s3.Bucket" ELSE "aws.dynamodb.Table"

\* the import branch: build import_opts, then construct with opts=import_opts
create_or_import_import ==
    /\ prog \in ImportProgs /\ pc = "import"
    /\ LET io == ImportOpts(args.name, args.opts) IN
         IF io.kind = "raise"
           THEN /\ result' = io
                /\ resources' = resources
           ELSE /\ resources' = Append(resources,
                      [rtype |-> ResourceType, name |-> args.resource_name,
                       props |-> ResourceProps, opts |-> Some(io.value)])
                /\ result' = Returned(args.resource_name)
    /\ pc' = "done"
    /\ UNCHANGED <<idx, prog, args, events, log, attempt, delay, last_exception>>

\* the create branch: construct with the caller's opts
create_or_import_create ==
    /\ prog \in ImportProgs /\ pc = "create"
    /\ resources' = Append(resources,
          [rtype |-> ResourceType, name |-> args.resource_name,
           props |-> ResourceProps, opts |-> args.opts])
    /\ result' = Returned(args.resource_name)
    /\ pc' = "done"
    /\ UNCHANGED <<idx, prog, args, events, log, attempt, delay, last_exception>>

\* ------------------------------ __main__.py and function_based_approach.py
Stmt(kind, name, uses) == [kind |-> kind, name |-> name, uses |-> uses]

\* the exports of src/__main__.py, lines 85-190
main_exports ==
    << Stmt("export", "cluster_id", {"eks"}),
       Stmt("export", "cluster_arn", {"eks"}),
       Stmt("export", "cluster_name", {"config"}),
       Stmt("export", "cluster_endpoint", {"eks"}),
       Stmt("export", "cluster_version", {"eks"}),
       Stmt("export", "cluster_certificate_authority_data", {"eks"}),
       Stmt("export", "cluster_info", {"config", "eks", "region", "current"}),
       Stmt("export", "vpc_info", {"vpc"}),
       Stmt("export", "iam_info", {"iam"}),
       Stmt("export", "vpc_id", {"vpc"}),
       Stmt("export", "vpc_cidr_block", {"vpc"}),
       Stmt("export", "public_subnet_ids", {"vpc"}),
       Stmt("export", "cluster_security_group_id", {"vpc"}),
       Stmt("export", "node_security_group_id", {"vpc"}),
       Stmt("export", "cluster_iam_role_arn", {"iam"}),
       Stmt("export", "node_group_iam_role_arn", {"iam"}),
       Stmt("export", "region", {"config"}),
       Stmt("export", "kubectl_config_command", {"config"}),
       Stmt("export", "next_steps", {"config"}),
       Stmt("export", "test_commands", {}),
       Stmt("export", "estimated_monthly_cost", {"config"}),
       Stmt("export", "configuration_summary", {"config", "addons"}) >>

\* main() of src/__main__.py, statement by statement
main_statements_eks_first ==
    << Stmt("setup", "config", {}),
       Stmt("setup", "current", {}),
       Stmt("setup", "region", {}),
       Stmt("module", "vpc", {"config"}),
       Stmt("module", "eks", {"config", "iam", "vpc"}),
       Stmt("module", "iam", {"config"}),
       Stmt("module", "addons", {"config", "eks"}) >> \o main_exports

main_statements ==
    << Stmt("setup", "config", {}),
       Stmt("setup", "current", {}),
       Stmt("setup", "region", {}),
       Stmt("module", "vpc", {"config"}),
       Stmt("module", "iam", {"config"}),
       Stmt("module", "eks", {"config", "iam", "vpc"}),
       Stmt("module", "addons", {"config", "eks"}) >> \o main_exports

\* main() of src/examples/function_based_approach.py
example_statements ==
    << Stmt("setup", "config", {}),
       Stmt("module", "vpc", {"config"}),
       Stmt("module", "iam", {"config"}),
       Stmt("module", "eks", {"config", "iam", "vpc"}),
       Stmt("module", "addons", {"config", "eks"}),
       Stmt("export", "cluster_info", {"config", "eks"}),
       Stmt("export", "vpc_info", {"vpc"}),
       Stmt("export", "iam_info", {"iam"}) >>

MainProgs == {"__main__.main", "function_based_approach.main"}

Statements == IF prog = "__main__.main" THEN main_statements
                                        ELSE example_statements

InitMain ==
    /\ prog \in MainProgs
    /\ args = [stack |-> "dev"]
    /\ pc = "run"
    /\ idx = 1
    /\ attempt = 0 /\ delay = 0 /\ last_exception = None
    /\ events = << >> /\ log = << >> /\ resources = << >>
    /\ result = NoResult

AtStatement(kind) ==
    /\ prog \in MainProgs /\ pc = "run"
    /\ idx <= Len(Statements)
    /\ Statements[idx].kind = kind

\* config = get_config(); current = aws.get_caller_identity(); region = aws.get_region()
main_setup ==
    /\ AtStatement("setup")
    /\ events' = Append(events, [ev |-> "setup", attempt |-> 0, outcome |-> "ok",
                                 val |-> Statements[idx].name])
    /\ idx' = idx + 1
    /\ UNCHANGED <<prog, args, pc, log, resources, result,
                   attempt, delay, last_exception>>

\* vpc = VPCResources(...), iam = IAMResources(...), eks = EKSResources(...),
\* addons = AddonsResources(...)    (create_*_resources(...) in the example)
main_module ==
    /\ AtStatement("module")
    /\ resources' = Append(resources, [rtype |-> "module",
                                       name |-> Statements[idx].name,
                                       uses |-> Statements[idx].uses])
    /\ idx' = idx + 1
    /\ UNCHANGED <<prog, args, pc, events, log, result,
                   attempt, delay, last_exception>>

\* pulumi.export(name, value)
main_export ==
    /\ AtStatement("export")
    /\ events' = Append(events, [ev |-> "export", attempt |-> Len(resources),
                                 outcome |-> Statements[idx].uses,
                                 val |-> Statements[idx].name])
    /\ idx' = idx + 1
    /\ UNCHANGED <<prog, args, pc, log, resources, result,
                   attempt, delay, last_exception>>

\* the end of main()
main_return ==
    /\ prog \in MainProgs /\ pc = "run"
    /\ idx > Len(Statements)
    /\ result' = Returned(None)
    /\ pc' = "done"
    /\ UNCHANGED <<prog, args, idx, events, log, resources,
                   attempt, delay, last_exception>>

\* --------------------------------- modules/state_storage/functions.py
ClusterNames == {"builder-space", "dev"}

Regions == {"af-south-1", "us-east-1"}

TagInputs == {NoneVal, Some([Name |-> "mine", Team |-> "infra"])}

\* tags = tags or {}
TagsOrEmpty(tags) == IF tags.is_none THEN EmptyDict ELSE tags.v

\* {**tags, k1: v1, ...}: the keys written after **tags win
WithTags(tags, fixed) == fixed @@ TagsOrEmpty(tags)

\* an output attribute of a declared resource (resource.id, resource.arn, ...)
OutputOf(resource_name, attr) == <<"output", resource_name, attr>>

\* bucket_name = f"{cluster_name}-pulumi-state-{aws_region}"
StateBucketNameNoRegion(cluster_name, aws_region) ==
    <<cluster_name, "-pulumi-state">>

StateBucketName(cluster_name, aws_region) ==
    <<cluster_name, "-pulumi-state-", aws_region>>

\* dynamodb_table_name = f"{cluster_name}-pulumi-state-lock"
StateLockTableName(cluster_name) == <<cluster_name, "-pulumi-state-lock">>

get_backend_configuration_commands(bucket_name, aws_region) ==
    << <<"# Configure Pulumi to use S3 backend:">>,
       <<"export PULUMI_BACKEND_URL=s3://">> \o bucket_name,
       <<"">>,
       <<"# Initialize Pulumi project with S3 backend:">>,
       <<"pulumi stack init dev --secrets-provider=awskms://alias/pulumi-secrets">>,
       <<"">>,
       <<"# Set AWS region:">>,
       <<"pulumi config set aws:region ", aws_region>>,
       <<"">>,
       <<"# Deploy infrastructure:">>,
       <<"pulumi up">>,
       <<"">>,
       <<"# Note: Ensure AWS credentials are configured before running these commands">> >>

\* the declared resources of one type, in order
OfType(t) == SelectSeq(resources, LAMBDA r : r.rtype = t)

InitStateStorage ==
    /\ prog = "create_state_storage_resources"
    /\ \E c \in ClusterNames, r \in Regions, t \in TagInputs :
          args = [cluster_name |-> c, aws_region |-> r, tags |-> t]
    /\ pc = "create_s3_bucket"
    /\ idx = 0
    /\ attempt = 0 /\ delay = 0 /\ last_exception = None
    /\ events = << >> /\ log = << >> /\ resources = << >>
    /\ result = NoResult

\* create_s3_bucket(cluster_name, bucket_name, tags)
create_s3_bucket ==
    /\ prog = "create_state_storage_resources" /\ pc = "create_s3_bucket"
    /\ resources' = Append(resources,
          [rtype |-> "aws.s3.Bucket",
           name  |-> <<args.cluster_name, "-pulumi-state-bucket">>,
           props |-> [bucket |-> StateBucketName(args.cluster_name, args.aws_region),
                      tags |-> WithTags(args.tags,
                          [Name |-> <<args.cluster_name, "-pulumi-state">>,
                           Purpose |-> "Pulumi state storage",
                           Environment |-> "development",
                           Module |-> "state-storage"])]])
    /\ pc' = "configure_s3_bucket_settings"
    /\ UNCHANGED <<idx, prog, args, events, log, result, attempt, delay, last_exception>>

\* configure_s3_bucket_settings(cluster_name, bucket_result["bucket_id"])
configure_s3_bucket_settings ==
    /\ prog = "create_state_storage_resources" /\ pc = "configure_s3_bucket_settings"
    /\ LET bucket_id == OutputOf(OfType("aws.s3.Bucket")[1].name, "id") IN
       resources' = resources \o
          << [rtype |-> "aws.s3.BucketVersioning",
              name |-> <<args.cluster_name, "-state-bucket-versioning">>,
              props |-> [bucket |-> bucket_id, status |-> "Enabled"]],
             [rtype |-> "aws.s3.BucketServerSideEncryptionConfiguration",
              name |-> <<args.cluster_name, "-state-bucket-encryption">>,
              props |-> [bucket |-> bucket_id, sse_algorithm |-> "AES256",
                         bucket_key_enabled |-> TRUE]],
             [rtype |-> "aws.s3.BucketPublicAccessBlock",
              name |-> <<args.cluster_name, "-state-bucket-pab">>,
              props |-> [bucket |-> bucket_id, block_public_acls |-> TRUE,
                         block_public_policy |-> TRUE, ignore_public_acls |-> TRUE,
                         restrict_public_buckets |-> TRUE]],
             [rtype |-> "aws.s3.BucketLifecycleConfiguration",
              name |-> <<args.cluster_name, "-state-bucket-lifecycle">>,
              props |-> [bucket |-> bucket_id, noncurrent_days |-> 30,
                         days_after_initiation |-> 1]] >>
    /\ pc' = "create_dynamodb_table"
    /\ UNCHANGED <<idx, prog, args, events, log, result, attempt, delay, last_exception>>

\* create_dynamodb_table(cluster_name, dynamodb_table_name, tags)
create_dynamodb_table ==
    /\ prog = "create_state_storage_resources" /\ pc = "create_dynamodb_table"
    /\ resources' = Append(resources,
          [rtype |-> "aws.dynamodb.Table",
           name  |-> <<args.cluster_name, "-pulumi-state-lock-table">>,
           props |-> [name |-> StateLockTableName(args.cluster_name),
                      billing_mode |-> "PAY_PER_REQUEST",
                      hash_key |-> "LockID",
                      attributes |-> << [name |-> "LockID", type |-> "S"] >>,
                      server_side_encryption |-> TRUE,
                      point_in_time_recovery |-> FALSE,
                      tags |-> WithTags(args.tags,
                          [Name |-> <<args.cluster_name, "-pulumi-state-lock">>,
                           Purpose |-> "Pulumi state locking",
                           Environment |-> "development",
                           Module |-> "state-storage"])]])
    /\ pc' = "return"
    /\ UNCHANGED <<idx, prog, args, events, log, result, attempt, delay, last_exception>>

\* backend_config = {...}; return {...}
create_state_storage_return ==
    /\ prog = "create_state_storage_resources" /\ pc = "return"
    /\ LET bucket_name == StateBucketName(args.cluster_name, args.aws_region)
           bucket == OfType("aws.s3.Bucket")[1]
           table  == OfType("aws.dynamodb.Table")[1]
       IN result' = Returned(
            [bucket_name_output |-> OutputOf(bucket.name, "id"),
             dynamodb_table_name_output |-> OutputOf(table.name, "name"),
             backend_config |->
                [backend_type |-> "s3",
                 bucket |-> bucket_name,
                 region |-> args.aws_region,
                 dynamodb_table |-> StateLockTableName(args.cluster_name),
                 encrypt |-> "true"],
             configuration_commands |->
                get_backend_configuration_commands(bucket_name, args.aws_region),
             _bucket |-> bucket.name,
             _table |-> table.name,
             _bucket_config |-> {r.name : r \in
                 {resources[j] : j \in 2 .. (Len(resources) - 1)}}])
    /\ pc' = "done"
    /\ UNCHANGED <<idx, prog, args, events, log, resources, attempt, delay, last_exception>>

\* ------------------- modules/vpc/functions.py and modules/vpc/__init__.py
Cidrs == {"10.0.1.0/24", "10.0.2.0/24"}

\* str(i) inside a formatted resource name
ToStr(n) == <<"0", "1", "2", "3", "4", "5", "6", "7", "8", "9">>[n + 1]

\* aws.get_availability_zones(state="available").names, k zones long
ZoneNames(k) == [j \in 1 .. k |-> <<"zone-", ToStr(j)>>]

VpcProgs == {"create_vpc_resources", "VPCResources"}

\* aws.ec2.Vpc(..., enable_dns_hostnames=..., enable_dns_support=...)
create_vpc_dns(enable_dns_hostnames, enable_dns_support) ==
    [enable_dns_hostnames |-> TRUE, enable_dns_support |-> TRUE]

VPCResources_dns(enable_dns_hostnames, enable_dns_support) ==
    [enable_dns_hostnames |-> enable_dns_hostnames,
     enable_dns_support |-> enable_dns_support]

\* aws.ec2.Subnet(..., map_public_ip_on_launch=...)
create_public_subnets_map_public_ip(map_public_ip_on_launch) == TRUE

VPCResources_map_public_ip(map_public_ip_on_launch) == map_public_ip_on_launch

\* availability_zones[i], i counted from 0
SubnetZoneFirst(availability_zones, i) == availability_zones[1]

SubnetZone(availability_zones, i) == availability_zones[i + 1]

VpcName == <<args.cluster_name, "-vpc">>

SubnetName(i) == <<args.cluster_name, "-public-subnet-", ToStr(i + 1)>>

Subnets == OfType("aws.ec2.Subnet")

Associations == OfType("aws.ec2.RouteTableAssociation")

InitVpc ==
    /\ prog \in VpcProgs
    /\ \E n \in 0 .. MaxSubnets, z \in 1 .. MaxZones,
          h \in BOOLEAN, d \in BOOLEAN, m \in BOOLEAN :
          \E cidrs \in [1 .. n -> Cidrs] :
             args = [cluster_name |-> "builder-space",
                     vpc_cidr |-> "10.0.0.0/16",
                     public_subnet_cidrs |-> cidrs,
                     azs |-> ZoneNames(z),
                     enable_dns_hostnames |-> h,
                     enable_dns_support |-> d,
                     map_public_ip_on_launch |-> m,
                     tags |-> NoneVal]
    /\ pc = "create_vpc"
    /\ idx = 0
    /\ attempt = 0 /\ delay = 0 /\ last_exception = None
    /\ events = << >> /\ log = << >> /\ resources = << >>
    /\ result = NoResult

\* azs = aws.get_availability_zones(state="available"); create_vpc(...)
create_vpc ==
    /\ prog \in VpcProgs /\ pc = "create_vpc"
    /\ events' = Append(events, [ev |-> "lookup", attempt |-> 0, outcome |-> "found",
                                 val |-> <<"aws.get_availability_zones", "available">>])
    /\ resources' = Append(resources,
          [rtype |-> "aws.ec2.Vpc", name |-> VpcName,
           props |-> [cidr_block |-> args.vpc_cidr,
                      dns |-> IF prog = "create_vpc_resources"
                                THEN create_vpc_dns(args.enable_dns_hostnames,
                                                    args.enable_dns_support)
                                ELSE VPCResources_dns(args.enable_dns_hostnames,
                                                      args.enable_dns_support),
                      tags |-> WithTags(args.tags,
                          [Name |-> VpcName,
                           kubernetes_io_cluster |-> "shared",
                           Module |-> "vpc"])]])
    /\ pc' = "create_internet_gateway"
    /\ UNCHANGED <<idx, prog, args, log, result, attempt, delay, last_exception>>

\* create_internet_gateway(cluster_name, vpc_id, tags)
create_internet_gateway ==
    /\ prog \in VpcProgs /\ pc = "create_internet_gateway"
    /\ resources' = Append(resources,
          [rtype |-> "aws.ec2.InternetGateway",
           name |-> <<args.cluster_name, "-igw">>,
           props |-> [vpc_id |-> OutputOf(VpcName, "id"),
                      tags |-> WithTags(args.tags,
                          [Name |-> <<args.cluster_name, "-igw">>,
                           Module |-> "vpc"])]])
    /\ pc' = "create_public_subnets"
    /\ idx' = 0
    /\ UNCHANGED <<prog, args, events, log, result, attempt, delay, last_exception>>

\* for i, cidr in enumerate(subnet_cidrs): subnet = aws.ec2.Subnet(...)
create_public_subnets ==
    /\ prog \in VpcProgs /\ pc = "create_public_subnets"
    /\ idx < Len(args.public_subnet_cidrs)
    /\ IF idx >= Len(args.azs)
         THEN /\ result' = Raised("IndexError")
              /\ pc' = "done"
              /\ UNCHANGED <<idx, resources>>
         ELSE /\ resources' = Append(resources,
                    [rtype |-> "aws.ec2.Subnet", name |-> SubnetName(idx),
                     props |-> [vpc_id |-> OutputOf(VpcName, "id"),
                                cidr_block |-> args.public_subnet_cidrs[idx + 1],
                                availability_zone |-> SubnetZone(args.azs, idx),
                                map_public_ip_on_launch |->
                                   IF prog = "create_vpc_resources"
                                     THEN create_public_subnets_map_public_ip(
                                              args.map_public_ip_on_launch)
                                     ELSE VPCResources_map_public_ip(
                                              args.map_public_ip_on_launch),
                                tags |-> WithTags(args.tags,
                                    [Name |-> SubnetName(idx),
                                     Type |-> "public",
                                     kubernetes_io_cluster |-> "shared",
                                     kubernetes_io_role_elb |-> "1",
                                     Module |-> "vpc"])]])
              /\ idx' = idx + 1
              /\ UNCHANGED <<pc, result>>
    /\ UNCHANGED <<prog, args, events, log, attempt, delay, last_exception>>

\* route_table = aws.ec2.RouteTable(...); route = aws.ec2.Route(...)
create_public_route_table ==
    /\ prog \in VpcProgs /\ pc = "create_public_subnets"
    /\ idx >= Len(args.public_subnet_cidrs)
    /\ resources' = resources \o
          << [rtype |-> "aws.ec2.RouteTable",
              name |-> <<args.cluster_name, "-public-rt">>,
              props |-> [vpc_id |-> OutputOf(VpcName, "id"),
                         tags |-> WithTags(args.tags,
                             [Name |-> <<args.cluster_name, "-public-rt">>,
                              Module |-> "vpc"])]],
             [rtype |-> "aws.ec2.Route",
              name |-> <<args.cluster_name, "-public-route">>,
              props |-> [route_table_id |->
                            OutputOf(<<args.cluster_name, "-public-rt">>, "id"),
                         destination_cidr_block |-> "0.0.0.0/0",
                         gateway_id |-> OutputOf(<<args.cluster_name, "-igw">>, "id")]] >>
    /\ pc' = "associations"
    /\ idx' = 0
    /\ UNCHANGED <<prog, args, events, log, result, attempt, delay, last_exception>>

\* for i, subnet_id in enumerate(subnet_ids): aws.ec2.RouteTableAssociation(...)
create_route_table_association ==
    /\ prog \in VpcProgs /\ pc = "associations"
    /\ idx < Len(Subnets)
    /\ resources' = Append(resources,
          [rtype |-> "aws.ec2.RouteTableAssociation",
           name |-> <<args.cluster_name, "-public-rta-", ToStr(idx + 1)>>,
           props |-> [subnet_id |-> OutputOf(Subnets[idx + 1].name, "id"),
                      route_table_id |->
                         OutputOf(<<args.cluster_name, "-public-rt">>, "id")]])
    /\ idx' = idx + 1
    /\ UNCHANGED <<prog, args, pc, events, log, result, attempt, delay, last_exception>>

SgRule(name, type, from_port, to_port, protocol, peer, sg) ==
    [rtype |-> "aws.ec2.SecurityGroupRule",
     name |-> <<args.cluster_name, name>>,
     props |-> [type |-> type, from_port |-> from_port, to_port |-> to_port,
                protocol |-> protocol, peer |-> peer,
                security_group_id |-> OutputOf(<<args.cluster_name, sg>>, "id")]]

SecurityGroup(suffix, prefix) ==
    [rtype |-> "aws.ec2.SecurityGroup",
     name |-> <<args.cluster_name, suffix>>,
     props |-> [name_prefix |-> <<args.cluster_name, prefix>>,
                vpc_id |-> OutputOf(VpcName, "id"),
                tags |-> WithTags(args.tags,
                    [Name |-> <<args.cluster_name, suffix>>, Module |-> "vpc"])]]

\* create_cluster_security_group(cluster_name, vpc_id, tags)
create_cluster_security_group ==
    /\ prog \in VpcProgs /\ pc = "associations"
    /\ idx >= Len(Subnets)
    /\ resources' = resources \o
          << SecurityGroup("-cluster-sg", "-cluster-"),
             SgRule("-cluster-egress", "egress", 0, 65535, "-1",
                    <<"cidr", "0.0.0.0/0">>, "-cluster-sg") >>
    /\ pc' = "create_node_security_group"
    /\ UNCHANGED <<idx, prog, args, events, log, result, attempt, delay, last_exception>>

\* create_node_security_group(cluster_name, vpc_id, cluster_sg_id, tags)
create_node_security_group ==
    /\ prog \in VpcProgs /\ pc = "create_node_security_group"
    /\ resources' = resources \o
          << SecurityGroup("-node-sg", "-node-"),
             SgRule("-node-ingress-self", "ingress", 0, 65535, "-1",
                    <<"self", "self">>, "-node-sg"),
             SgRule("-node-ingress-cluster", "ingress", 1025, 65535, "tcp",
                    <<"sg", "-cluster-sg">>, "-node-sg"),
             SgRule("-node-egress", "egress", 0, 65535, "-1",
                    <<"cidr", "0.0.0.0/0">>, "-node-sg"),
             SgRule("-cluster-ingress-node", "ingress", 443, 443, "tcp",
                    <<"sg", "-node-sg">>, "-cluster-sg") >>
    /\ pc' = "return"
    /\ UNCHANGED <<idx, prog, args, events, log, result, attempt, delay, last_exception>>

\* return {...}   (the properties of VPCResources)
create_vpc_resources_return ==
    /\ prog \in VpcProgs /\ pc = "return"
    /\ result' = Returned(
          [vpc_id |-> OutputOf(VpcName, "id"),
           vpc_cidr_block |-> OutputOf(VpcName, "cidr_block"),
           public_subnet_ids |->
              [j \in 1 .. Len(Subnets) |-> OutputOf(Subnets[j].name, "id")],
           availability_zones |-> args.azs,
           cluster_security_group_id |->
              OutputOf(<<args.cluster_name, "-cluster-sg">>, "id"),
           node_group_security_group_id |->
              OutputOf(<<args.cluster_name, "-node-sg">>, "id")])
    /\ pc' = "done"
    /\ UNCHANGED <<idx, prog, args, events, log, resources, attempt, delay, last_exception>>

\* --------------------------------------------- modules/iam/functions.py
ExistingRoleNames == {"", "shared-eks-role"}

\* `flag and name`: true when the flag is set and the name is not empty
UseExistingFlagOnly(flag, name) == flag

UseExisting(flag, name) == flag /\ name # ""

\* an attribute of the result of a data-source lookup (aws.iam.get_role)
DataAttr(name, attr) == <<"data", <<name>>, attr>>

ClusterRoleName == <<args.cluster_name, "-cluster-role">>

NodeRoleName == <<args.cluster_name, "-ng-role">>

\* policies = [("worker", ...), ("cni", ...), ("registry", ...), ("ssm", ...)]
NodePolicies ==
    << <<"worker", "arn:aws:iam::aws:policy/AmazonEKSWorkerNodePolicy">>,
       <<"cni", "arn:aws:iam::aws:policy/AmazonEKS_CNI_Policy">>,
       <<"registry", "arn:aws:iam::aws:policy/AmazonEC2ContainerRegistryReadOnly">>,
       <<"ssm", "arn:aws:iam::aws:policy/AmazonSSMManagedInstanceCore">> >>

InitIam ==
    /\ prog = "create_iam_resources"
    /\ \E uc \in BOOLEAN, un \in BOOLEAN,
          nc \in ExistingRoleNames, nn \in ExistingRoleNames, t \in TagInputs :
          args = [cluster_name |-> "builder-space",
                  use_existing_cluster_role |-> uc,
                  existing_cluster_role_name |-> nc,
                  use_existing_node_role |-> un,
                  existing_node_role_name |-> nn,
                  tags |-> t]
    /\ pc = "cluster_role"
    /\ idx = 0
    /\ attempt = 0 /\ delay = 0 /\ last_exception = None
    /\ events = << >> /\ log = << >> /\ resources = << >>
    /\ result = NoResult

GetRoleEvent(which, name) ==
    [ev |-> "lookup", attempt |-> 0, outcome |-> which,
     val |-> <<"aws.iam.get_role", name>>]

\* cluster_role_result = get_existing_role(existing_cluster_role_name)
get_existing_cluster_role ==
    /\ prog = "create_iam_resources" /\ pc = "cluster_role"
    /\ UseExisting(args.use_existing_cluster_role, args.existing_cluster_role_name)
    /\ events' = Append(events, GetRoleEvent("cluster", args.existing_cluster_role_name))
    /\ pc' = "node_role"
    /\ UNCHANGED <<idx, prog, args, log, resources, result, attempt, delay, last_exception>>

\* the resources create_cluster_role declares, in order
create_cluster_role_declares ==
    << [rtype |-> "aws.iam.Role", name |-> ClusterRoleName,
        props |-> [name |-> ClusterRoleName,
                   service |-> "eks.amazonaws.com",
                   tags |-> WithTags(args.tags,
                       [Name |-> ClusterRoleName, Module |-> "iam"])]],
       [rtype |-> "aws.iam.RolePolicyAttachment",
        name |-> <<args.cluster_name, "-cluster-policy">>,
        props |-> [policy_arn |-> "arn:aws:iam::aws:policy/AmazonEKSClusterPolicy",
                   role |-> OutputOf(ClusterRoleName, "name")]] >>

\* cluster_role_result = create_cluster_role(cluster_name, tags)
create_cluster_role ==
    /\ prog = "create_iam_resources" /\ pc = "cluster_role"
    /\ ~UseExisting(args.use_existing_cluster_role, args.existing_cluster_role_name)
    /\ resources' = resources \o create_cluster_role_declares
    /\ pc' = "node_role"
    /\ UNCHANGED <<idx, prog, args, events, log, result, attempt, delay, last_exception>>

\* node_role_result = get_existing_role(existing_node_role_name)
get_existing_node_role ==
    /\ prog = "create_iam_resources" /\ pc = "node_role"
    /\ UseExisting(args.use_existing_node_role, args.existing_node_role_name)
    /\ events' = Append(events, GetRoleEvent("node", args.existing_node_role_name))
    /\ pc' = "return"
    /\ UNCHANGED <<idx, prog, args, log, resources, result, attempt, delay, last_exception>>

\* the resources create_node_group_role declares, in order
create_node_group_role_declares ==
    << [rtype |-> "aws.iam.Role", name |-> NodeRoleName,
        props |-> [name |-> NodeRoleName,
                   service |-> "ec2.amazonaws.com",
                   tags |-> WithTags(args.tags,
                       [Name |-> <<args.cluster_name, "-node-group-role">>,
                        Module |-> "iam"])]] >>
    \o [j \in 1 .. Len(NodePolicies) |->
          [rtype |-> "aws.iam.RolePolicyAttachment",
           name |-> <<args.cluster_name, "-node-", NodePolicies[j][1], "-policy">>,
           props |-> [policy_arn |-> NodePolicies[j][2],
                      role |-> OutputOf(NodeRoleName, "name")]]]
    \o << [rtype |-> "aws.iam.InstanceProfile",
           name |-> <<args.cluster_name, "-node-instance-profile">>,
           props |-> [name |-> <<args.cluster_name, "-node-instance-profile">>,
                      role |-> OutputOf(NodeRoleName, "name"),
                      tags |-> WithTags(args.tags,
                          [Name |-> <<args.cluster_name, "-node-instance-profile">>,
                           Module |-> "iam"])]] >>

\* node_role_result = create_node_group_role(cluster_name, tags)
create_node_group_role ==
    /\ prog = "create_iam_resources" /\ pc = "node_role"
    /\ ~UseExisting(args.use_existing_node_role, args.existing_node_role_name)
    /\ resources' = resources \o create_node_group_role_declares
    /\ pc' = "return"
    /\ UNCHANGED <<idx, prog, args, events, log, result, attempt, delay, last_exception>>

HasLookup(which) == \E j \in 1 .. Len(events) :
    events[j].ev = "lookup" /\ events[j].outcome = which

\* role_arn / role_name / policy attachments of one role result
RoleAttr(which, existing_name, role_name, attr) ==
    IF HasLookup(which) THEN DataAttr(existing_name, attr)
                        ELSE OutputOf(role_name, attr)

\* return {...}
create_iam_resources_return ==
    /\ prog = "create_iam_resources" /\ pc = "return"
    /\ result' = Returned(
          [cluster_role_arn |-> RoleAttr("cluster", args.existing_cluster_role_name,
                                         ClusterRoleName, "arn"),
           cluster_role_name |-> RoleAttr("cluster", args.existing_cluster_role_name,
                                          ClusterRoleName, "name"),
           node_group_role_arn |-> RoleAttr("node", args.existing_node_role_name,
                                            NodeRoleName, "arn"),
           node_group_role_name |-> RoleAttr("node", args.existing_node_role_name,
                                             NodeRoleName, "name"),
           _cluster_role |-> RoleAttr("cluster", args.existing_cluster_role_name,
                                      ClusterRoleName, "role"),
           _node_role |-> RoleAttr("node", args.existing_node_role_name,
                                   NodeRoleName, "role"),
           _cluster_policy_attachment |->
              IF HasLookup("cluster") THEN NoneVal
              ELSE Some(<<args.cluster_name, "-cluster-policy">>),
           _node_policy_attachments |->
              IF HasLookup("node") THEN NoneVal
              ELSE Some({<<args.cluster_name, "-node-", NodePolicies[j][1], "-policy">> :
                            j \in 1 .. Len(NodePolicies)}),
           _instance_profile |->
              IF HasLookup("node") THEN NoneVal
              ELSE Some(<<args.cluster_name, "-node-instance-profile">>)])
    /\ pc' = "done"
    /\ UNCHANGED <<idx, prog, args, events, log, resources, attempt, delay, last_exception>>

\* ----------------------------- validate_*_configuration (resource_utils.py)
\* what get_bucket_versioning_output gives: it raises, or reports a status
Versionings == {[raises |-> TRUE, status |-> ""],
                [raises |-> FALSE, status |-> "Enabled"],
                [raises |-> FALSE, status |-> "Suspended"]}

\* what get_bucket_server_side_encryption_configuration_output gives
Encryptions == {[raises |-> TRUE, rules |-> 0],
                [raises |-> FALSE, rules |-> 0],
                [raises |-> FALSE, rules |-> 1]}

\* what get_bucket_public_access_block_output gives
PublicAccessBlocks ==
    [raises : BOOLEAN, block_public_acls : BOOLEAN, block_public_policy : BOOLEAN,
     ignore_public_acls : BOOLEAN, restrict_public_buckets : BOOLEAN]

\* try: versioning_enabled = versioning.status == "Enabled" / except: False
VersioningEnabled(versioning) ==
    IF versioning.raises THEN FALSE ELSE versioning.status = "Enabled"

\* try: encryption_enabled = len(encryption.rules) > 0 / except: False
EncryptionEnabled(encryption) ==
    IF encryption.raises THEN FALSE ELSE encryption.rules > 0

\* try: public_access_blocked = (a and b and c and d) / except: False
PublicAccessBlocked(pab) ==
    IF pab.raises THEN FALSE
    ELSE /\ pab.block_public_acls /\ pab.block_public_policy
         /\ pab.ignore_public_acls /\ pab.restrict_public_buckets

\* the body of validate_s3_bucket_configuration
validate_s3_unguarded_subchecks(name, world, versioning, encryption, pab) ==
    IF LookupOutcome(world) # "found" \/ versioning.raises
          \/ encryption.raises \/ pab.raises
      THEN Returned([exists |-> FALSE,
                     error |-> IF LookupOutcome(world) # "found"
                                 THEN LookupOutcome(world) ELSE "SubCheckError"])
      ELSE Returned([exists |-> TRUE,
                     versioning_enabled |-> VersioningEnabled(versioning),
                     encryption_enabled |-> EncryptionEnabled(encryption),
                     public_access_blocked |-> PublicAccessBlocked(pab),
                     bucket |-> <<"data", <<name>>, "bucket">>])

validate_s3_bucket_configuration(name, world, versioning, encryption, pab) ==
    IF LookupOutcome(world) # "found"
      THEN Returned([exists |-> FALSE, error |-> LookupOutcome(world)])
      ELSE Returned([exists |-> TRUE,
                     versioning_enabled |-> VersioningEnabled(versioning),
                     encryption_enabled |-> EncryptionEnabled(encryption),
                     public_access_blocked |-> PublicAccessBlocked(pab),
                     bucket |-> <<"data", <<name>>, "bucket">>])

\* the body of validate_dynamodb_table_configuration
validate_dynamodb_table_configuration(name, world) ==
    IF LookupOutcome(world) # "found"
      THEN Returned([exists |-> FALSE, error |-> LookupOutcome(world)])
      ELSE Returned([exists |-> TRUE,
                     billing_mode |-> <<"data", <<name>>, "billing_mode">>,
                     hash_key |-> <<"data", <<name>>, "hash_key">>,
                     table |-> <<"data", <<name>>, "table">>])

ValidateProgs == {"validate_s3_bucket_configuration",
                  "validate_dynamodb_table_configuration"}

InitValidate ==
    /\ prog \in ValidateProgs
    /\ \E w \in Worlds, v \in Versionings, e \in Encryptions, p \in PublicAccessBlocks :
          args = [name |-> IF prog = "validate_s3_bucket_configuration"
                             THEN "bs-pulumi-state-af-south-1"
                             ELSE "bs-pulumi-state-lock",
                  world |-> w, versioning |-> v, encryption |-> e, pab |-> p]
    /\ pc = "try"
    /\ idx = 0
    /\ attempt = 0 /\ delay = 0 /\ last_exception = None
    /\ events = << >> /\ log = << >> /\ resources = << >>
    /\ result = NoResult

SubLookup(fn, outcome) ==
    [ev |-> "lookup", attempt |-> 0, outcome |-> outcome, val |-> <<fn, args.name>>]

\* validate_s3_bucket_configuration(bucket_name)
validate_s3_bucket ==
    /\ prog = "validate_s3_bucket_configuration" /\ pc = "try"
    /\ events' = events \o
          (IF LookupOutcome(args.world) # "found"
             THEN << SubLookup("aws.s3.get_bucket_output", LookupOutcome(args.world)) >>
             ELSE << SubLookup("aws.s3.get_bucket_output", "found"),
                     SubLookup("aws.s3.get_bucket_versioning_output",
                               IF args.versioning.raises THEN "raise" ELSE "found"),
                     SubLookup("aws.s3.get_bucket_server_side_encryption_configuration_output",
                               IF args.encryption.raises THEN "raise" ELSE "found"),
                     SubLookup("aws.s3.get_bucket_public_access_block_output",
                               IF args.pab.raises THEN "raise" ELSE "found") >>)
    /\ result' = validate_s3_bucket_configuration(args.name, args.world,
                     args.versioning, args.encryption, args.pab)
    /\ pc' = "done"
    /\ UNCHANGED <<idx, prog, args, log, resources, attempt, delay, last_exception>>

\* validate_dynamodb_table_configuration(table_name)
validate_dynamodb_table ==
    /\ prog = "validate_dynamodb_table_configuration" /\ pc = "try"
    /\ events' = Append(events,
          SubLookup("aws.dynamodb.get_table_output", LookupOutcome(args.world)))
    /\ result' = validate_dynamodb_table_configuration(args.name, args.world)
    /\ pc' = "done"
    /\ UNCHANGED <<idx, prog, args, log, resources, attempt, delay, last_exception>>

\* ------------------------------------------- email stack (infra-email/__main__.py)
RECURSIVE Join(_, _)
\* the labels of a name, with the separator between neighbours
Join(labels, sep) ==
    IF Len(labels) <= 1 THEN labels
    ELSE <<Head(labels), sep>> \o Join(Tail(labels), sep)

\* a domain is its labels; f"{domain}" joins them with dots
Dotted(domain) == Join(domain, ".")

\* domain.replace('.', '-')
Slug(domain) == Join(domain, "-")

\* the list used when "domains" is not configured
DefaultDomains == << <<"amano", "services">>, <<"tekanya", "services">>,
                     <<"lightsphere", "space">>, <<"sosolola", "cloud">> >>

EmailDomains == {DefaultDomains[i] : i \in DOMAIN DefaultDomains}

\* config.get_object("domains") or [...]: an empty list is falsy as well
AllDomains(configured) ==
    IF Len(configured) = 0 THEN DefaultDomains ELSE configured

\* config.get_object("domains"): lists of distinct domains
DomainLists ==
    {ds \in UNION {[1..n -> EmailDomains] : n \in 0..MaxDomains} :
        \A i, j \in DOMAIN ds : i # j => ds[i] # ds[j]}

EmailRegions == {"us-east-1", "eu-west-1"}

InitEmail ==
    /\ prog = "infra-email"
    /\ \E ds \in DomainLists, r \in EmailRegions :
          args = [all_domains |-> AllDomains(ds), aws_region |-> r,
                  workmail_alias |-> "tekanya", primary_domain |-> "sosolola.cloud"]
    /\ pc = "program"
    /\ idx = 1
    /\ attempt = 0 /\ delay = 0 /\ last_exception = None
    /\ events = << >> /\ log = << >> /\ resources = << >>
    /\ result = NoResult

\* aws.route53.get_zone(name=f"{domain}.").zone_id
ZoneId(domain) == <<"zone", Dotted(domain) \o <<".">> >>

Route53Record(logical, domain, name, type, records, protect) ==
    [rtype |-> "aws.route53.Record",
     name  |-> logical,
     props |-> [zone_id |-> ZoneId(domain), name |-> name, type |-> type,
                ttl |-> 300, records |-> records],
     opts  |-> [protect |-> protect]]

\* the resources of one iteration of the SES loop
SesResources(domain, aws_region) ==
    << [rtype |-> "aws.ses.DomainIdentity",
        name  |-> <<"ses-">> \o Slug(domain),
        props |-> [domain |-> Dotted(domain)],
        opts  |-> [protect |-> TRUE]],
       Route53Record(<<"ses-verification-">> \o Slug(domain), domain,
                     <<"_amazonses.">> \o Dotted(domain), "TXT",
                     << OutputOf(<<"ses-">> \o Slug(domain), "verification_token") >>,
                     TRUE),
       [rtype |-> "aws.ses.MailFrom",
        name  |-> <<"ses-mail-from-">> \o Slug(domain),
        props |-> [domain |-> OutputOf(<<"ses-">> \o Slug(domain), "domain"),
                   mail_from_domain |-> <<"mail.">> \o Dotted(domain),
                   behavior_on_mx_failure |-> "UseDefaultValue"],
        opts  |-> [protect |-> FALSE]],
       Route53Record(<<"mail-from-mx-">> \o Slug(domain), domain,
                     <<"mail.">> \o Dotted(domain), "MX",
                     << <<"10 feedback-smtp.", aws_region, ".amazonses.com.">> >>,
                     FALSE),
       Route53Record(<<"mail-from-spf-">> \o Slug(domain), domain,
                     <<"mail.">> \o Dotted(domain), "TXT",
                     << <<"v=spf1 include:amazonses.com ~all">> >>,
                     FALSE) >>

DmarcValue(domain) ==
    IF Dotted(domain) = <<"lightsphere", ".", "space">>
      THEN "v=DMARC1; p=none; rua=mailto:info@lightshpere.space; ruf=mailto:info@lightshpere.space; sp=none; adkim=r; aspf=r"
      ELSE "v=DMARC1;p=quarantine;pct=100;fo=1"

\* the resources of one iteration of the WorkMail DNS loop
WorkmailResources(domain, aws_region) ==
    << Route53Record(<<"mx-">> \o Slug(domain), domain,
                     Dotted(domain), "MX",
                     << <<"10 inbound-smtp.", aws_region, ".amazonaws.com.">> >>,
                     TRUE),
       Route53Record(<<"autodiscover-">> \o Slug(domain), domain,
                     <<"autodiscover.">> \o Dotted(domain), "CNAME",
                     << <<"autodiscover.mail.", aws_region, ".awsapps.com.">> >>,
                     TRUE),
       Route53Record(<<"spf-">> \o Slug(domain), domain,
                     Dotted(domain), "TXT",
                     << <<"v=spf1 include:amazonses.com ~all">> >>,
                     TRUE),
       Route53Record(<<"dmarc-">> \o Slug(domain), domain,
                     <<"_dmarc.">> \o Dotted(domain), "TXT",
                     << <<DmarcValue(domain)>> >>,
                     TRUE) >>

EmailExportNames ==
    <<"workmail_organization", "domains_configured", "ses_domains",
      "dns_records_created", "verification_status", "next_steps",
      "troubleshooting">>

\* for domain in all_domains: (SES domain identity and verification)
email_ses_domain ==
    /\ prog = "infra-email" /\ pc = "program"
    /\ idx \in 1..Len(args.all_domains)
    /\ resources' = resources \o SesResources(args.all_domains[idx], args.aws_region)
    /\ events' = Append(events,
          [ev |-> "lookup", attempt |-> idx, outcome |-> "found",
           val |-> <<"aws.route53.get_zone", Dotted(args.all_domains[idx]) \o <<".">> >>])
    /\ idx' = idx + 1
    /\ UNCHANGED <<prog, args, pc, log, result, attempt, delay, last_exception>>

\* for domain in all_domains: (WorkMail domain registration and DNS records)
email_workmail_domain ==
    /\ prog = "infra-email" /\ pc = "program"
    /\ idx \in (Len(args.all_domains) + 1)..(2 * Len(args.all_domains))
    /\ LET domain == args.all_domains[idx - Len(args.all_domains)] IN
         /\ resources' = resources \o WorkmailResources(domain, args.aws_region)
         /\ events' = Append(events,
               [ev |-> "lookup", attempt |-> idx, outcome |-> "found",
                val |-> <<"aws.route53.get_zone", Dotted(domain) \o <<".">> >>])
    /\ idx' = idx + 1
    /\ UNCHANGED <<prog, args, pc, log, result, attempt, delay, last_exception>>

\* the pulumi.export calls that end the program
email_exports ==
    /\ prog = "infra-email" /\ pc = "program"
    /\ idx = 2 * Len(args.all_domains) + 1
    /\ events' = events \o
          [i \in 1..Len(EmailExportNames) |->
             [ev |-> "export", attempt |-> Len(resources),
              outcome |-> args.all_domains, val |-> EmailExportNames[i]]]
    /\ pc' = "done"
    /\ UNCHANGED <<idx, prog, args, log, resources, result,
                   attempt, delay, last_exception>>

\* ------------------- Auth0 stack (infra-auth0/__main__.py, multi-domain-auth0.py)
Auth0Progs == {"infra-auth0", "multi-domain-auth0"}

\* internal_subdomains / INTERNAL_SUBDOMAINS
internal_subdomains == << <<"k8s", "lightsphere", "space">> >>

AuthSubdomains == {"auth", "login"}

PrimaryDomains == {<<"sosolola", "cloud">>, <<"amano", "services">>,
                   <<"example", "org">>}

InitAuth0 ==
    /\ prog \in Auth0Progs
    /\ IF prog = "infra-auth0"
         THEN \E ds \in DomainLists, p \in PrimaryDomains, a \in AuthSubdomains :
                 args = [all_domains |-> AllDomains(ds), primary_domain |-> p,
                         auth_subdomain |-> a]
         ELSE args = [all_domains |-> DefaultDomains,
                      primary_domain |-> <<"sosolola", "cloud">>,
                      auth_subdomain |-> "auth"]
    /\ pc = IF prog = "infra-auth0" THEN "callbacks_domains" ELSE "dns"
    /\ idx = 1
    /\ attempt = 0 /\ delay = 0 /\ last_exception = None
    /\ events = << >> /\ log = << >> /\ resources = << >>
    /\ result = NoResult

\* the order of the sections of each program
Auth0Sections(p) ==
    IF p = "infra-auth0"
      THEN <<"callbacks_domains", "callbacks_internal", "client", "roles",
             "dns", "custom_domain", "exports", "done">>
      ELSE <<"dns", "callbacks_domains", "callbacks_internal", "client",
             "custom_domain", "exports", "done">>

Auth0SectionAfter(p, section) ==
    LET i == CHOOSE k \in DOMAIN Auth0Sections(p) : Auth0Sections(p)[k] = section
    IN  Auth0Sections(p)[i + 1]

\* the end of a loop body: the next element, or the section after the loop
Auth0LoopStep(list) ==
    IF idx < Len(list)
      THEN idx' = idx + 1 /\ pc' = pc
      ELSE idx' = 1 /\ pc' = Auth0SectionAfter(prog, pc)

ListAppend(list, url) ==
    [ev |-> "append", attempt |-> idx, outcome |-> list, val |-> url]

UrlAppendsNoWebOrigin(auth_subdomain, host) ==
    << ListAppend("callback_urls",
                  <<"https://", auth_subdomain, ".">> \o Dotted(host)
                      \o <<"/oauth2/callback">>),
       ListAppend("logout_urls", <<"https://", auth_subdomain, ".">> \o Dotted(host)) >>

\* the three appends of one loop body
UrlAppends(auth_subdomain, host) ==
    << ListAppend("callback_urls",
                  <<"https://", auth_subdomain, ".">> \o Dotted(host)
                      \o <<"/oauth2/callback">>),
       ListAppend("logout_urls", <<"https://", auth_subdomain, ".">> \o Dotted(host)),
       ListAppend("web_origins", <<"https://", auth_subdomain, ".">> \o Dotted(host)) >>

\* the current value of one of the three lists
UrlList(list) ==
    LET appended == SelectSeq(events,
                        LAMBDA e : e.ev = "append" /\ e.outcome = list)
    IN  [i \in 1..Len(appended) |-> appended[i].val]

\* for domain in all_domains: callback_urls.append(...) ...
auth0_callbacks_domain ==
    /\ prog \in Auth0Progs /\ pc = "callbacks_domains"
    /\ events' = events \o UrlAppends(args.auth_subdomain, args.all_domains[idx])
    /\ Auth0LoopStep(args.all_domains)
    /\ UNCHANGED <<prog, args, log, resources, result, attempt, delay, last_exception>>

\* for subdomain in internal_subdomains: callback_urls.append(...) ...
auth0_callbacks_internal ==
    /\ prog \in Auth0Progs /\ pc = "callbacks_internal"
    /\ events' = events \o UrlAppends(args.auth_subdomain, internal_subdomains[idx])
    /\ Auth0LoopStep(internal_subdomains)
    /\ UNCHANGED <<prog, args, log, resources, result, attempt, delay, last_exception>>

\* app = auth0.Client("oauth2-proxy", ...)
auth0_client ==
    /\ prog \in Auth0Progs /\ pc = "client"
    /\ resources' = Append(resources,
          [rtype |-> "auth0.Client",
           name  |-> <<"oauth2-proxy">>,
           props |-> [name |-> IF prog = "infra-auth0" THEN "OAuth2 Proxy"
                               ELSE "OAuth2 Proxy Multi-Domain",
                      app_type |-> "regular_web",
                      callbacks |-> UrlList("callback_urls"),
                      allowed_logout_urls |-> UrlList("logout_urls"),
                      web_origins |-> UrlList("web_origins"),
                      oidc_conformant |-> TRUE,
                      grant_types |-> <<"authorization_code", "refresh_token">>]])
    /\ pc' = Auth0SectionAfter(prog, pc)
    /\ UNCHANGED <<idx, prog, args, events, log, result, attempt, delay, last_exception>>

Auth0Role(logical, name) ==
    [rtype |-> "auth0.Role", name |-> <<logical>>, props |-> [name |-> name]]

\* admin_role, member_role, customer_role
auth0_roles ==
    /\ prog = "infra-auth0" /\ pc = "roles"
    /\ resources' = resources \o
          << Auth0Role("admin-role", "Administrator"),
             Auth0Role("member-role", "Team Member"),
             Auth0Role("customer-role", "Customer") >>
    /\ pc' = Auth0SectionAfter(prog, pc)
    /\ UNCHANGED <<idx, prog, args, events, log, result, attempt, delay, last_exception>>

\* for domain in dns_domains: zone lookup and the auth CNAME record
auth0_cname_domain ==
    /\ prog \in Auth0Progs /\ pc = "dns"
    /\ LET domain == args.all_domains[idx] IN
         /\ resources' = Append(resources,
               Route53Record((IF prog = "infra-auth0" THEN <<"auth-cname-">>
                              ELSE <<"auth-">>) \o Slug(domain),
                             domain, <<args.auth_subdomain>>, "CNAME",
                             << <<"tekanya-cd-edaow2ksjrrcfbe8.edge.tenants.eu.auth0.com">> >>,
                             FALSE))
         /\ events' = events \o
               << [ev |-> "lookup", attempt |-> idx, outcome |-> "found",
                   val |-> <<"aws.route53.get_zone", Dotted(domain) \o <<".">> >>] >>
               \o (IF prog = "infra-auth0" THEN << >>
                   ELSE << [ev |-> "export", attempt |-> Len(resources) + 1,
                            outcome |-> "",
                            val |-> <<"dns_record_">> \o Join(domain, "_")] >>)
    /\ Auth0LoopStep(args.all_domains)
    /\ UNCHANGED <<prog, args, log, result, attempt, delay, last_exception>>

\* custom_domain = auth0.CustomDomain(...)
auth0_custom_domain ==
    /\ prog \in Auth0Progs /\ pc = "custom_domain"
    /\ resources' = Append(resources,
          [rtype |-> "auth0.CustomDomain",
           name  |-> IF prog = "infra-auth0"
                       THEN <<"auth-">> \o Slug(args.primary_domain)
                       ELSE <<"auth-primary">>,
           props |-> [domain |-> <<args.auth_subdomain, ".">> \o Dotted(args.primary_domain),
                      type |-> "auth0_managed_certs"],
           opts  |-> [import_ |->
                        IF prog = "infra-auth0"
                              /\ args.primary_domain # <<"sosolola", "cloud">>
                          THEN NoneVal ELSE Some("cd_edaOW2ksJRRcFBE8")]])
    /\ pc' = Auth0SectionAfter(prog, pc)
    /\ UNCHANGED <<idx, prog, args, events, log, result, attempt, delay, last_exception>>

Auth0ExportNames(p) ==
    IF p = "infra-auth0"
      THEN <<"auth0_tenant_domain", "auth0_client_id", "auth0_client_secret_note",
             "auth0_application_id", "google_connection", "custom_domains",
             "custom_domain_status", "custom_domain_origins", "route53_cnames",
             "oauth2_proxy_config", "next_steps">>
      ELSE <<"auth0_client_id", "auth0_tenant_domain", "auth0_custom_domain",
             "all_auth_domains", "internal_auth_domains", "callback_urls",
             "oauth2_proxy_config", "dns_status", "next_steps">>

\* the pulumi.export calls that end the program
auth0_exports ==
    /\ prog \in Auth0Progs /\ pc = "exports"
    /\ events' = events \o
          [i \in 1..Len(Auth0ExportNames(prog)) |->
             [ev |-> "export", attempt |-> Len(resources), outcome |-> "",
              val |-> <<Auth0ExportNames(prog)[i]>>]]
    /\ pc' = Auth0SectionAfter(prog, pc)
    /\ UNCHANGED <<idx, prog, args, log, resources, result,
                   attempt, delay, last_exception>>

\* --------------------------------------------- ECR stack (infra-ecr/__main__.py)
\* config.get("dockerhub_username"): unset, empty or a name
DockerhubUsernames == {NoneVal, Some(""), Some("builder")}

\* config.get_secret("dockerhub_password"): unset or a secret output
DockerhubPasswords == {NoneVal, Some(<<"secret", "dockerhub_password">>)}

\* Python truth of an optional string or output
Truthy(opt) == ~opt.is_none /\ opt.v # ""

EcrTags == [Project |-> "builder-space-eks", Environment |-> "production",
            ManagedBy |-> "pulumi", Purpose |-> "container-registry"]

InitEcr ==
    /\ prog = "infra-ecr"
    /\ \E u \in DockerhubUsernames, p \in DockerhubPasswords,
          c \in {"builder-space", "bs"} :
          args = [cluster_name |-> c, aws_region |-> "af-south-1",
                  dockerhub_username |-> u, dockerhub_password |-> p]
    /\ pc = "dockerhub_secret"
    /\ idx = 0
    /\ attempt = 0 /\ delay = 0 /\ last_exception = None
    /\ events = << >> /\ log = << >> /\ resources = << >>
    /\ result = NoResult

\* whether the branch that declares the Docker Hub secret is taken
HasDockerhubCredentials ==
    Truthy(args.dockerhub_username) /\ Truthy(args.dockerhub_password)

\* dockerhub_secret = None; if dockerhub_username and dockerhub_password: ...
ecr_dockerhub_secret ==
    /\ prog = "infra-ecr" /\ pc = "dockerhub_secret"
    /\ resources' =
          IF HasDockerhubCredentials
            THEN resources \o
               << [rtype |-> "aws.secretsmanager.Secret",
                   name  |-> <<"dockerhub-credentials">>,
                   props |-> [name |-> <<"ecr-pullthroughcache/", args.cluster_name,
                                         "-dockerhub">>,
                              tags |-> EcrTags]],
                  [rtype |-> "aws.secretsmanager.SecretVersion",
                   name  |-> <<"dockerhub-credentials-version">>,
                   props |-> [secret_id |-> OutputOf(<<"dockerhub-credentials">>, "id"),
                              secret_string |-> <<args.dockerhub_username.v,
                                                  args.dockerhub_password.v>>]] >>
            ELSE resources
    /\ pc' = "dockerhub_cache"
    /\ UNCHANGED <<idx, prog, args, events, log, result, attempt, delay, last_exception>>

\* dockerhub_cache = aws.ecr.PullThroughCacheRule("dockerhub-cache",
\*     credential_arn=dockerhub_secret.arn, ...): dockerhub_secret may be None
ecr_dockerhub_cache ==
    /\ prog = "infra-ecr" /\ pc = "dockerhub_cache"
    /\ IF HasDockerhubCredentials
         THEN /\ resources' = Append(resources,
                    [rtype |-> "aws.ecr.PullThroughCacheRule",
                     name  |-> <<"dockerhub-cache">>,
                     props |-> [ecr_repository_prefix |-> "docker-hub",
                                upstream_registry_url |-> "registry-1.docker.io",
                                credential_arn |->
                                    OutputOf(<<"dockerhub-credentials">>, "arn")],
                     opts  |-> [depends_on |-> << <<"dockerhub-credentials">> >>]])
              /\ pc' = "k8s_cache"
              /\ UNCHANGED result
         ELSE /\ result' = Raised("AttributeError")
              /\ pc' = "done"
              /\ UNCHANGED resources
    /\ UNCHANGED <<idx, prog, args, events, log, attempt, delay, last_exception>>

\* k8s_cache = aws.ecr.PullThroughCacheRule("k8s-cache", ...)
ecr_k8s_cache ==
    /\ prog = "infra-ecr" /\ pc = "k8s_cache"
    /\ resources' = Append(resources,
          [rtype |-> "aws.ecr.PullThroughCacheRule",
           name  |-> <<"k8s-cache">>,
           props |-> [ecr_repository_prefix |-> "k8s",
                      upstream_registry_url |-> "registry.k8s.io"]])
    /\ pc' = "repository"
    /\ UNCHANGED <<idx, prog, args, events, log, result, attempt, delay, last_exception>>

\* the KMS key and alias, the custom-apps repository and its lifecycle policy
ecr_repository ==
    /\ prog = "infra-ecr" /\ pc = "repository"
    /\ resources' = resources \o
          << [rtype |-> "aws.kms.Key", name |-> <<"ecr-kms-key">>,
              props |-> [deletion_window_in_days |-> 7, tags |-> EcrTags]],
             [rtype |-> "aws.kms.Alias", name |-> <<"ecr-kms-alias">>,
              props |-> [name |-> <<"alias/", args.cluster_name, "-ecr">>,
                         target_key_id |-> OutputOf(<<"ecr-kms-key">>, "key_id")]],
             [rtype |-> "aws.ecr.Repository", name |-> <<"custom-apps">>,
              props |-> [name |-> <<args.cluster_name, "/custom-apps">>,
                         image_tag_mutability |-> "MUTABLE",
                         scan_on_push |-> TRUE,
                         encryption_type |-> "KMS",
                         kms_key |-> OutputOf(<<"ecr-kms-key">>, "arn"),
                         tags |-> EcrTags]],
             [rtype |-> "aws.ecr.LifecyclePolicy", name |-> <<"custom-apps-lifecycle">>,
              props |-> [repository |-> OutputOf(<<"custom-apps">>, "name")]] >>
    /\ pc' = "policies"
    /\ UNCHANGED <<idx, prog, args, events, log, result, attempt, delay, last_exception>>

\* ecr_push_policy and replication_config
ecr_policies ==
    /\ prog = "infra-ecr" /\ pc = "policies"
    /\ resources' = resources \o
          << [rtype |-> "aws.iam.Policy", name |-> <<"ecr-push-policy">>,
              props |-> [name |-> <<args.cluster_name, "-ecr-push-policy">>,
                         resource |-> OutputOf(<<"custom-apps">>, "arn"),
                         tags |-> EcrTags]],
             [rtype |-> "aws.ecr.ReplicationConfiguration", name |-> <<"ecr-replication">>,
              props |-> [region |-> "eu-west-1",
                         registry_id |-> <<"data", "aws.get_caller_identity",
                                           "account_id">>]] >>
    /\ pc' = "exports"
    /\ UNCHANGED <<idx, prog, args, events, log, result, attempt, delay, last_exception>>

EcrExportNames ==
    <<"ecr_registry_url", "ecr_registry_id", "pull_through_cache_rules",
      "custom_repositories", "cost_estimate", "docker_login_command",
      "usage_examples", "kubernetes_image_pull_secret", "next_steps",
      "encryption", "iam_policy_arn_for_cicd">>

\* the pulumi.export calls that end the program
ecr_exports ==
    /\ prog = "infra-ecr" /\ pc = "exports"
    /\ events' = events \o
          [i \in 1..Len(EcrExportNames) |->
             [ev |-> "export", attempt |-> Len(resources), outcome |-> "",
              val |-> <<EcrExportNames[i]>>]]
    /\ pc' = "done"
    /\ UNCHANGED <<idx, prog, args, log, resources, result,
                   attempt, delay, last_exception>>

\* ------------------------------------------------ Aurora stack (aurora/database.py)
\* config.get(...): unset or an identifier
ConfigIds(id) == {NoneVal, Some(id)}

InitAurora ==
    /\ prog = "aurora"
    /\ \E v \in ConfigIds("vpc-1"), s1 \in ConfigIds("subnet-a"),
          s2 \in ConfigIds("subnet-b"), s3 \in ConfigIds("subnet-c"),
          pw \in BOOLEAN :
          args = [vpc_id |-> v, subnet_1_id |-> s1, subnet_2_id |-> s2,
                  subnet_3_id |-> s3, has_db_password |-> pw]
    /\ pc = "config"
    /\ idx = 0
    /\ attempt = 0 /\ delay = 0 /\ last_exception = None
    /\ events = << >> /\ log = << >> /\ resources = << >>
    /\ result = NoResult

RequiredConfigAllFour(a) ==
    ~Truthy(a.vpc_id) \/ ~Truthy(a.subnet_1_id)
        \/ ~Truthy(a.subnet_2_id) \/ ~Truthy(a.subnet_3_id)

\* if not vpc_id or not subnet_1_id:
RequiredConfigMissing(a) == ~Truthy(a.vpc_id) \/ ~Truthy(a.subnet_1_id)

\* if not vpc_id or not subnet_1_id: raise Exception("Required config: ...")
aurora_require_config ==
    /\ prog = "aurora" /\ pc = "config"
    /\ IF RequiredConfigMissing(args)
         THEN /\ result' = Raised("Required config: vpc_id, subnet_1_id, subnet_2_id, subnet_3_id")
              /\ pc' = "done"
         ELSE /\ pc' = "db_sg"
              /\ UNCHANGED result
    /\ UNCHANGED <<idx, prog, args, events, log, resources,
                   attempt, delay, last_exception>>

\* db_sg and db_subnet_group
aurora_network ==
    /\ prog = "aurora" /\ pc = "db_sg"
    /\ resources' = resources \o
          << [rtype |-> "aws.ec2.SecurityGroup", name |-> <<"db-sg">>,
              props |-> [vpc_id |-> args.vpc_id,
                         ingress_port |-> 5432,
                         ingress_cidr_blocks |-> <<"10.0.0.0/16">>]],
             [rtype |-> "aws.rds.SubnetGroup", name |-> <<"aurora-subnet-group">>,
              props |-> [subnet_ids |-> <<args.subnet_1_id, args.subnet_2_id,
                                          args.subnet_3_id>>,
                         tags |-> [Name |-> "lightsphere-aurora-subnet"]]] >>
    /\ pc' = "aurora_cluster"
    /\ UNCHANGED <<idx, prog, args, events, log, result, attempt, delay, last_exception>>

\* aurora_cluster: config.require_secret("db_password") raises when it is unset
aurora_cluster ==
    /\ prog = "aurora" /\ pc = "aurora_cluster"
    /\ IF args.has_db_password
         THEN /\ resources' = Append(resources,
                    [rtype |-> "aws.rds.Cluster", name |-> <<"aurora-postgres">>,
                     props |-> [cluster_identifier |-> "lightsphere-postgres",
                                engine |-> "aurora-postgresql",
                                db_subnet_group_name |->
                                    OutputOf(<<"aurora-subnet-group">>, "name"),
                                vpc_security_group_ids |->
                                    << OutputOf(<<"db-sg">>, "id") >>]])
              /\ pc' = "aurora_instance"
              /\ UNCHANGED result
         ELSE /\ result' = Raised("ConfigMissingError")
              /\ pc' = "done"
              /\ UNCHANGED resources
    /\ UNCHANGED <<idx, prog, args, events, log, attempt, delay, last_exception>>

\* aurora_instance
aurora_instance ==
    /\ prog = "aurora" /\ pc = "aurora_instance"
    /\ resources' = Append(resources,
          [rtype |-> "aws.rds.ClusterInstance", name |-> <<"aurora-instance">>,
           props |-> [cluster_identifier |-> OutputOf(<<"aurora-postgres">>, "id"),
                      instance_class |-> "db.serverless"]])
    /\ pc' = "second_subnet_group"
    /\ UNCHANGED <<idx, prog, args, events, log, result, attempt, delay, last_exception>>

\* the repeated db_subnet_group statement reads network.subnet_ids; the module
\* has no name network
aurora_second_subnet_group ==
    /\ prog = "aurora" /\ pc = "second_subnet_group"
    /\ result' = Raised("NameError")
    /\ pc' = "done"
    /\ UNCHANGED <<idx, prog, args, events, log, resources,
                   attempt, delay, last_exception>>

\* --------------------------------------------- k8s stack (infra-k8s/__main__.py)
IssuerValues(url) == {NoneVal, Some(url)}

\* an object that may carry an issuer attribute
NoIssuerAttr == [has_issuer |-> FALSE, issuer |-> NoneVal]

IssuerHolders(url) ==
    {NoIssuerAttr} \cup {[has_issuer |-> TRUE, issuer |-> v] : v \in IssuerValues(url)}

\* identities[0] as the provider versions shape it: with an oidcs list, with
\* an oidc object, with an empty oidcs list next to an oidc object, with neither
Identities ==
    {[has_oidcs |-> TRUE, oidcs |-> l, has_oidc |-> FALSE, oidc |-> NoIssuerAttr] :
        l \in {<< >>} \cup {<<h>> : h \in IssuerHolders("https://oidc.eks/id/NEW")}}
    \cup
    {[has_oidcs |-> o, oidcs |-> << >>, has_oidc |-> TRUE, oidc |-> h] :
        o \in BOOLEAN, h \in IssuerHolders("https://oidc.eks/id/OLD")}
    \cup
    {[has_oidcs |-> FALSE, oidcs |-> << >>, has_oidc |-> FALSE, oidc |-> NoIssuerAttr]}

\* aws.eks.get_cluster(...): identities is None or a list; "malformed" is a
\* value on which len() raises
ClusterInfos ==
    {[identities_kind |-> k, identities |-> << >>] : k \in {"none", "list", "malformed"}}
    \cup {[identities_kind |-> "list", identities |-> <<i>>] : i \in Identities}

derive_oidc_issuer_no_fallback(ci) ==
    IF ci.identities_kind # "list" \/ Len(ci.identities) = 0 THEN NoneVal
    ELSE LET ident == ci.identities[1] IN
           IF ident.has_oidcs /\ Len(ident.oidcs) > 0 /\ ident.oidcs[1].has_issuer
             THEN ident.oidcs[1].issuer
           ELSE NoneVal

\* _derive_oidc_issuer(ci)
derive_oidc_issuer(ci) ==
    IF ci.identities_kind = "malformed" THEN NoneVal      \* except Exception
    ELSE IF ci.identities_kind = "none" \/ Len(ci.identities) = 0 THEN NoneVal
    ELSE LET ident == ci.identities[1] IN
           IF ident.has_oidcs /\ Len(ident.oidcs) > 0 /\ ident.oidcs[1].has_issuer
             THEN ident.oidcs[1].issuer
           ELSE IF ident.has_oidc /\ ident.oidc.has_issuer
             THEN ident.oidc.issuer
           ELSE NoneVal

\* config.get("cluster_oidc_issuer"): unset, empty or a URL
IssuerOverrides == {NoneVal, Some(""), Some("https://oidc.example/override")}

InitK8s ==
    /\ prog = "infra-k8s"
    /\ \E ci \in ClusterInfos, o \in IssuerOverrides,
          d \in {NoneVal, Some("k8s.lightsphere.space")} :
          args = [cluster_name |-> "builder-space", domain_name |-> d,
                  cluster_info |-> ci, oidc_issuer_override |-> o]
    /\ pc = "api_dns"
    /\ idx = 0
    /\ attempt = 0 /\ delay = 0 /\ last_exception = None
    /\ events = << >> /\ log = << >> /\ resources = << >>
    /\ result = NoResult

\* if domain_name: hosted zone lookup and the cluster-api-dns record
k8s_api_dns ==
    /\ prog = "infra-k8s" /\ pc = "api_dns"
    /\ IF Truthy(args.domain_name)
         THEN /\ resources' = Append(resources,
                    [rtype |-> "aws.route53.Record", name |-> <<"cluster-api-dns">>,
                     props |-> [zone_id |-> <<"zone", <<args.domain_name.v>> >>,
                                name |-> <<"api.", args.domain_name.v>>,
                                type |-> "CNAME", ttl |-> 300,
                                records |-> << <<"data", "cluster_info", "endpoint">> >>]])
              /\ events' = Append(events,
                    [ev |-> "lookup", attempt |-> 0, outcome |-> "found",
                     val |-> <<"aws.route53.get_zone", args.domain_name.v>>])
         ELSE UNCHANGED <<resources, events>>
    /\ pc' = "oidc_issuer"
    /\ UNCHANGED <<idx, prog, args, log, result, attempt, delay, last_exception>>

\* derived_oidc_issuer = _derive_oidc_issuer(cluster_info); if / elif / else: raise
k8s_oidc_issuer ==
    /\ prog = "infra-k8s" /\ pc = "oidc_issuer"
    /\ LET derived_oidc_issuer == derive_oidc_issuer(args.cluster_info) IN
         IF Truthy(args.oidc_issuer_override)
           THEN /\ events' = Append(events,
                      [ev |-> "assign", attempt |-> 0, outcome |-> "oidc_issuer",
                       val |-> args.oidc_issuer_override.v])
                /\ pc' = "oidc_provider"
                /\ UNCHANGED result
         ELSE IF Truthy(derived_oidc_issuer)
           THEN /\ events' = Append(events,
                      [ev |-> "assign", attempt |-> 0, outcome |-> "oidc_issuer",
                       val |-> derived_oidc_issuer.v])
                /\ pc' = "oidc_provider"
                /\ UNCHANGED result
         ELSE /\ result' = Raised("Unable to determine OIDC issuer automatically.")
              /\ pc' = "done"
              /\ UNCHANGED events
    /\ UNCHANGED <<idx, prog, args, log, resources, attempt, delay, last_exception>>

\* the value bound to oidc_issuer
oidc_issuer == SelectSeq(events, LAMBDA e : e.ev = "assign")[1].val

IrsaRole(logical, subject) ==
    [rtype |-> "aws.iam.Role", name |-> <<logical>>,
     props |-> [federated |-> OutputOf(<<"eks-oidc-provider">>, "arn"),
                issuer |-> oidc_issuer, subject |-> subject]]

\* oidc_provider = aws.iam.OpenIdConnectProvider("eks-oidc-provider", ...)
k8s_oidc_provider ==
    /\ prog = "infra-k8s" /\ pc = "oidc_provider"
    /\ resources' = Append(resources,
          [rtype |-> "aws.iam.OpenIdConnectProvider", name |-> <<"eks-oidc-provider">>,
           props |-> [client_id_lists |-> <<"sts.amazonaws.com">>,
                      thumbprint_lists |-> <<"9e99a48a9960b14926bb7f3b02e22da2b0ab7280">>,
                      url |-> oidc_issuer]])
    /\ pc' = "irsa_roles"
    /\ UNCHANGED <<idx, prog, args, events, log, result, attempt, delay, last_exception>>

\* the k8s provider and the IAM roles for service accounts, with their policies
k8s_irsa_roles ==
    /\ prog = "infra-k8s" /\ pc = "irsa_roles"
    /\ resources' = resources \o
          << [rtype |-> "k8s.Provider", name |-> <<"k8s-provider">>, props |-> EmptyDict],
             IrsaRole("external-dns-role",
                      "system:serviceaccount:external-dns:external-dns"),
             [rtype |-> "aws.iam.RolePolicy", name |-> <<"external-dns-policy">>,
              props |-> [role |-> OutputOf(<<"external-dns-role">>, "id")]],
             IrsaRole("cluster-autoscaler-role",
                      "system:serviceaccount:kube-system:cluster-autoscaler"),
             [rtype |-> "aws.iam.RolePolicy", name |-> <<"cluster-autoscaler-policy">>,
              props |-> [role |-> OutputOf(<<"cluster-autoscaler-role">>, "id")]] >>
    /\ pc' = "workloads"
    /\ UNCHANGED <<idx, prog, args, events, log, result, attempt, delay, last_exception>>

K8sExportNames ==
    <<"cluster_name", "aws_region", "argocd_endpoint", "setup_commands",
      "oauth2_proxy_setup", "domain_setup", "domain_requirements", "iam_roles",
      "gitops_next_steps">>

\* the rest of the program: add-on roles, namespaces, ArgoCD, secrets, exports
k8s_workloads ==
    /\ prog = "infra-k8s" /\ pc = "workloads"
    /\ resources' = resources \o
          [i \in 1..6 |->
             [rtype |-> <<"aws.iam.Role", "aws.eks.Addon", "aws.iam.Role",
                          "Chart", "k8s.apiextensions.CustomResource",
                          "aws.secretsmanager.SecretVersion">>[i],
              name  |-> << <<"ebs-csi-driver-role">>, <<"ebs-csi-driver">>,
                           <<"external-secrets-operator-role">>, <<"argocd">>,
                           <<"argocd-infrastructure-apps">>,
                           <<"oauth2-proxy-auth0-version">> >>[i],
              props |-> EmptyDict]]
    /\ events' = events \o
          [i \in 1..Len(K8sExportNames) |->
             [ev |-> "export", attempt |-> Len(resources), outcome |-> "",
              val |-> <<K8sExportNames[i]>>]]
    /\ pc' = "done"
    /\ UNCHANGED <<idx, prog, args, log, result, attempt, delay, last_exception>>

\* ------------------------------------------------------------ Config (config.py)
\* config.get_bool("enable_spot_instances"): unset or a boolean
BoolConfigs == {NoneVal, Some(TRUE), Some(FALSE)}

\* config.get_object("node_instance_types"): unset or a list
InstanceTypeConfigs ==
    {NoneVal, Some(<< >>), Some(<<"m5.large">>),
     Some(<<"t4g.small", "t3.small", "t2.small">>)}

\* config.get_bool(key) or False
GetBoolOrFalse(opt) == IF opt.is_none THEN FALSE ELSE opt.v

\* config.get_object(key) or default: None and the empty list are falsy
GetObjectOr(opt, default) ==
    IF opt.is_none THEN default
    ELSE IF Len(opt.v) = 0 THEN default ELSE opt.v

InitConfig ==
    /\ prog = "Config"
    /\ \E s \in BoolConfigs, t \in InstanceTypeConfigs, n \in 1..2 :
          args = [enable_spot_instances |-> s, node_instance_types |-> t,
                  node_desired_size |-> n]
    /\ pc = "__init__"
    /\ idx = 0
    /\ attempt = 0 /\ delay = 0 /\ last_exception = None
    /\ events = << >> /\ log = << >> /\ resources = << >>
    /\ result = NoResult

\* Config.__init__: the fields the two properties read
Config_init ==
    /\ prog = "Config" /\ pc = "__init__"
    /\ result' = Returned(
          [node_instance_types |->
               GetObjectOr(args.node_instance_types, <<"t4g.small", "t3.small">>),
           node_desired_size |-> args.node_desired_size,
           enable_spot_instances |-> GetBoolOrFalse(args.enable_spot_instances)])
    /\ pc' = "capacity_type"
    /\ UNCHANGED <<idx, prog, args, events, log, resources,
                   attempt, delay, last_exception>>

capacity_type_on_demand(self) == "ON_DEMAND"

\* Config.capacity_type
capacity_type(self) ==
    IF self.enable_spot_instances THEN "SPOT" ELSE "ON_DEMAND"

\* Config.optimized_instance_types
optimized_instance_types(self) ==
    IF self.enable_spot_instances
      THEN <<"t4g.small", "t3.small", "t2.small">>
      ELSE self.node_instance_types

PropertyRead(name, value) ==
    [ev |-> "property", attempt |-> 0, outcome |-> name, val |-> value]

\* a read of config.capacity_type
Config_capacity_type ==
    /\ prog = "Config" /\ pc = "capacity_type"
    /\ events' = Append(events,
          PropertyRead("capacity_type", capacity_type(result.value)))
    /\ pc' = "optimized_instance_types"
    /\ UNCHANGED <<idx, prog, args, log, resources, result,
                   attempt, delay, last_exception>>

\* a read of config.optimized_instance_types
Config_optimized_instance_types ==
    /\ prog = "Config" /\ pc = "optimized_instance_types"
    /\ events' = Append(events,
          PropertyRead("optimized_instance_types",
                       optimized_instance_types(result.value)))
    /\ pc' = "estimated_monthly_cost"
    /\ UNCHANGED <<idx, prog, args, log, resources, result,
                   attempt, delay, last_exception>>

\* __main__: the cost estimate built from enable_spot_instances and
\* optimized_instance_types
Config_estimated_monthly_cost ==
    /\ prog = "Config" /\ pc = "estimated_monthly_cost"
    /\ events' = Append(events,
          [ev |-> "export", attempt |-> 0, outcome |-> "",
           val |-> [node_cost |-> IF result.value.enable_spot_instances
                                    THEN "~$8.64" ELSE "~$28.80",
                    capacity_info |->
                        <<ToStr(result.value.node_desired_size), "x ">>
                          \o Join(optimized_instance_types(result.value), ", ")
                          \o <<IF result.value.enable_spot_instances
                                 THEN " spot" ELSE " on-demand", " instances">>]])
    /\ pc' = "done"
    /\ UNCHANGED <<idx, prog, args, log, resources, result,
                   attempt, delay, last_exception>>

\* ------------------------------------------ modules/iam/__init__.py (IAMResources)
InitIAMResources ==
    /\ prog = "IAMResources"
    /\ \E uc \in BOOLEAN, un \in BOOLEAN,
          nc \in ExistingRoleNames, nn \in ExistingRoleNames, t \in TagInputs :
          args = [cluster_name |-> "builder-space",
                  use_existing_cluster_role |-> uc,
                  existing_cluster_role_name |-> nc,
                  use_existing_node_role |-> un,
                  existing_node_role_name |-> nn,
                  tags |-> t]
    /\ pc = "cluster_role"
    /\ idx = 0
    /\ attempt = 0 /\ delay = 0 /\ last_exception = None
    /\ events = << >> /\ log = << >> /\ resources = << >>
    /\ result = NoResult

IAMResources_use_existing_flag_only(flag, name) == flag

\* if use_existing_..._role and existing_..._role_name:
IAMResources_use_existing(flag, name) == flag /\ name # ""

NodeAttachment(suffix, policy_arn) ==
    [rtype |-> "aws.iam.RolePolicyAttachment",
     name |-> <<args.cluster_name, suffix>>,
     props |-> [policy_arn |-> policy_arn,
                role |-> OutputOf(<<args.cluster_name, "-ng-role">>, "name")]]

\* self.current = aws.get_caller_identity(); then the cluster role: looked up,
\* or declared with its policy attachment
IAMResources_cluster_role ==
    /\ prog = "IAMResources" /\ pc = "cluster_role"
    /\ IF IAMResources_use_existing(args.use_existing_cluster_role,
                                    args.existing_cluster_role_name)
         THEN /\ events' = events \o
                    << [ev |-> "lookup", attempt |-> 0, outcome |-> "identity",
                        val |-> <<"aws.get_caller_identity">>],
                       GetRoleEvent("cluster", args.existing_cluster_role_name) >>
              /\ UNCHANGED resources
         ELSE /\ events' = Append(events,
                    [ev |-> "lookup", attempt |-> 0, outcome |-> "identity",
                     val |-> <<"aws.get_caller_identity">>])
              /\ resources' = resources \o
                    << [rtype |-> "aws.iam.Role",
                        name |-> <<args.cluster_name, "-cluster-role">>,
                        props |-> [name |-> <<args.cluster_name, "-cluster-role">>,
                                   service |-> "eks.amazonaws.com",
                                   tags |-> WithTags(args.tags,
                                       [Name |-> <<args.cluster_name, "-cluster-role">>,
                                        Module |-> "iam"])]],
                       [rtype |-> "aws.iam.RolePolicyAttachment",
                        name |-> <<args.cluster_name, "-cluster-policy">>,
                        props |-> [policy_arn |->
                                       "arn:aws:iam::aws:policy/AmazonEKSClusterPolicy",
                                   role |-> OutputOf(<<args.cluster_name, "-cluster-role">>,
                                                     "name")]] >>
    /\ pc' = "node_role"
    /\ UNCHANGED <<idx, prog, args, log, result, attempt, delay, last_exception>>

\* the node group role: looked up, or declared with its four policy
\* attachments and the instance profile
IAMResources_node_group_role ==
    /\ prog = "IAMResources" /\ pc = "node_role"
    /\ IF IAMResources_use_existing(args.use_existing_node_role,
                                    args.existing_node_role_name)
         THEN /\ events' = Append(events,
                    GetRoleEvent("node", args.existing_node_role_name))
              /\ UNCHANGED resources
         ELSE /\ resources' = resources \o
                    << [rtype |-> "aws.iam.Role",
                        name |-> <<args.cluster_name, "-ng-role">>,
                        props |-> [name |-> <<args.cluster_name, "-ng-role">>,
                                   service |-> "ec2.amazonaws.com",
                                   tags |-> WithTags(args.tags,
                                       [Name |-> <<args.cluster_name, "-node-group-role">>,
                                        Module |-> "iam"])]],
                       NodeAttachment("-node-worker-policy",
                           "arn:aws:iam::aws:policy/AmazonEKSWorkerNodePolicy"),
                       NodeAttachment("-node-cni-policy",
                           "arn:aws:iam::aws:policy/AmazonEKS_CNI_Policy"),
                       NodeAttachment("-node-registry-policy",
                           "arn:aws:iam::aws:policy/AmazonEC2ContainerRegistryReadOnly"),
                       NodeAttachment("-node-ssm-policy",
                           "arn:aws:iam::aws:policy/AmazonSSMManagedInstanceCore"),
                       [rtype |-> "aws.iam.InstanceProfile",
                        name |-> <<args.cluster_name, "-node-instance-profile">>,
                        props |-> [name |-> <<args.cluster_name, "-node-instance-profile">>,
                                   role |-> OutputOf(<<args.cluster_name, "-ng-role">>,
                                                     "name"),
                                   tags |-> WithTags(args.tags,
                                       [Name |-> <<args.cluster_name,
                                                   "-node-instance-profile">>,
                                        Module |-> "iam"])]] >>
              /\ UNCHANGED events
    /\ pc' = "properties"
    /\ UNCHANGED <<idx, prog, args, log, result, attempt, delay, last_exception>>

\* self._cluster_role_arn and the other three attributes behind the properties
IAMResourcesAttr(which, existing_name, role_name, attr) ==
    IF HasLookup(which) THEN DataAttr(existing_name, attr)
                        ELSE OutputOf(role_name, attr)

\* the object __init__ leaves, seen through its four properties
IAMResources_properties ==
    /\ prog = "IAMResources" /\ pc = "properties"
    /\ result' = Returned(
          [cluster_role_arn |->
              IAMResourcesAttr("cluster", args.existing_cluster_role_name,
                               <<args.cluster_name, "-cluster-role">>, "arn"),
           cluster_role_name |->
              IAMResourcesAttr("cluster", args.existing_cluster_role_name,
                               <<args.cluster_name, "-cluster-role">>, "name"),
           node_group_role_arn |->
              IAMResourcesAttr("node", args.existing_node_role_name,
                               <<args.cluster_name, "-ng-role">>, "arn"),
           node_group_role_name |->
              IAMResourcesAttr("node", args.existing_node_role_name,
                               <<args.cluster_name, "-ng-role">>, "name")])
    /\ pc' = "done"
    /\ UNCHANGED <<idx, prog, args, events, log, resources,
                   attempt, delay, last_exception>>

\* ------------------------------------------------- modules/eks/functions.py
EksProgs == {"eks.functions.create_eks_resources", "eks.create_eks_resources"}

KmsKeyArns == {"", "arn:aws:kms:af-south-1:111122223333:key/existing"}

EksArgs ==
    {[cluster_name |-> "builder-space",
      use_existing_kms_key |-> u, existing_kms_key_arn |-> k,
      enable_vpc_cni |-> v, enable_coredns |-> c, enable_kube_proxy |-> p,
      node_group |-> NoneVal, tags |-> t] :
        u \in BOOLEAN, k \in KmsKeyArns, v \in BOOLEAN, c \in BOOLEAN,
        p \in BOOLEAN, t \in TagInputs}

\* create_eks_addons called on its own: with or without a node group
AddonsArgs ==
    {[cluster_name |-> "builder-space",
      use_existing_kms_key |-> FALSE, existing_kms_key_arn |-> "",
      enable_vpc_cni |-> v, enable_coredns |-> c, enable_kube_proxy |-> p,
      node_group |-> n, tags |-> t] :
        v \in BOOLEAN, c \in BOOLEAN, p \in BOOLEAN,
        n \in {NoneVal, Some(<<"builder-space", "-node-group">>)}, t \in TagInputs}

InitEks ==
    /\ \/ prog \in EksProgs /\ args \in EksArgs /\ pc = "log_group"
       \/ prog = "create_eks_addons" /\ args \in AddonsArgs /\ pc = "addons"
    /\ idx = 0
    /\ attempt = 0 /\ delay = 0 /\ last_exception = None
    /\ events = << >> /\ log = << >> /\ resources = << >>
    /\ result = NoResult

EksTags(logical) == WithTags(args.tags, [Name |-> logical, Module |-> "eks"])

LogGroupResource ==
    [rtype |-> "aws.cloudwatch.LogGroup",
     name  |-> <<args.cluster_name, "-eks-log-group">>,
     props |-> [name |-> <<"/aws/eks/", args.cluster_name, "/cluster">>,
                tags |-> EksTags(<<args.cluster_name, "-eks-log-group">>)]]

\* log_group_result = create_cloudwatch_log_group(...)
create_cloudwatch_log_group ==
    /\ prog = "eks.functions.create_eks_resources" /\ pc = "log_group"
    /\ resources' = Append(resources, LogGroupResource)
    /\ pc' = "kms"
    /\ UNCHANGED <<idx, prog, args, events, log, result, attempt, delay, last_exception>>

existing_key_arn_ignoring_flag(use_existing_kms_key, existing_kms_key_arn) ==
    existing_kms_key_arn

\* existing_kms_key_arn if use_existing_kms_key else ""
existing_key_arn(use_existing_kms_key, existing_kms_key_arn) ==
    IF use_existing_kms_key THEN existing_kms_key_arn ELSE ""

KmsResources ==
    << [rtype |-> "aws.kms.Key",
        name  |-> <<args.cluster_name, "-eks-kms-key">>,
        props |-> [tags |-> EksTags(<<args.cluster_name, "-eks-kms-key">>)]],
       [rtype |-> "aws.kms.Alias",
        name  |-> <<args.cluster_name, "-eks-kms-alias">>,
        props |-> [name |-> <<"alias/", args.cluster_name, "-eks">>,
                   target_key_id |->
                       OutputOf(<<args.cluster_name, "-eks-kms-key">>, "key_id")]] >>

KmsAssign(arn) ==
    [ev |-> "assign", attempt |-> 0, outcome |-> "kms_key_arn", val |-> arn]

\* kms_key_arn = create_kms_key(cluster_name, ..., tags)
create_kms_key ==
    /\ prog = "eks.functions.create_eks_resources" /\ pc = "kms"
    /\ LET arg == existing_key_arn(args.use_existing_kms_key,
                                   args.existing_kms_key_arn) IN
         IF arg # ""
           THEN /\ events' = Append(events, KmsAssign(<<arg>>))
                /\ UNCHANGED resources
           ELSE /\ resources' = resources \o KmsResources
                /\ events' = Append(events,
                      KmsAssign(OutputOf(<<args.cluster_name, "-eks-kms-key">>, "arn")))
    /\ pc' = "cluster"
    /\ UNCHANGED <<idx, prog, args, log, result, attempt, delay, last_exception>>

\* the value bound to kms_key_arn
kms_key_arn == SelectSeq(events, LAMBDA e : e.ev = "assign")[1].val

ClusterResource(depends_on) ==
    [rtype |-> "aws.eks.Cluster",
     name  |-> <<args.cluster_name, "-cluster">>,
     props |-> [name |-> <<args.cluster_name>>,
                encryption_key_arn |-> kms_key_arn,
                encryption_resources |-> <<"secrets">>,
                tags |-> EksTags(<<args.cluster_name, "-cluster">>)],
     opts  |-> [depends_on |-> depends_on]]

NodeGroupResource(depends_on) ==
    [rtype |-> "aws.eks.NodeGroup",
     name  |-> <<args.cluster_name, "-node-group">>,
     props |-> [cluster_name |-> OutputOf(<<args.cluster_name, "-cluster">>, "name"),
                node_group_name |-> <<args.cluster_name, "-nodes">>,
                tags |-> EksTags(<<args.cluster_name, "-node-group">>)],
     opts  |-> [depends_on |-> depends_on]]

\* cluster_result = create_eks_cluster(...)
create_eks_cluster ==
    /\ prog = "eks.functions.create_eks_resources" /\ pc = "cluster"
    /\ resources' = Append(resources, ClusterResource(<< >>))
    /\ pc' = "node_group"
    /\ UNCHANGED <<idx, prog, args, events, log, result, attempt, delay, last_exception>>

\* node_group_result = create_node_group(...)
create_node_group ==
    /\ prog = "eks.functions.create_eks_resources" /\ pc = "node_group"
    /\ resources' = Append(resources, NodeGroupResource(<< >>))
    /\ pc' = "addons"
    /\ UNCHANGED <<idx, prog, args, events, log, result, attempt, delay, last_exception>>

Addon(key, addon_name, depends_on) ==
    [rtype |-> "aws.eks.Addon",
     name  |-> <<args.cluster_name, "-", addon_name, "-addon">>,
     key   |-> key,
     props |-> [cluster_name |-> OutputOf(<<args.cluster_name, "-cluster">>, "name"),
                addon_name |-> addon_name,
                resolve_conflicts_on_create |-> "OVERWRITE",
                resolve_conflicts_on_update |-> "OVERWRITE",
                tags |-> EksTags(<<args.cluster_name, "-", addon_name, "-addon">>)],
     opts  |-> [depends_on |-> depends_on]]

AddonsAllThree(enable_vpc_cni, enable_coredns, enable_kube_proxy, node_group) ==
    << Addon("vpc_cni", "vpc-cni", << >>),
       Addon("coredns", "coredns",
             IF node_group.is_none THEN << >> ELSE <<node_group.v>>),
       Addon("kube_proxy", "kube-proxy", << >>) >>

\* the add-ons create_eks_addons declares, in order
Addons(enable_vpc_cni, enable_coredns, enable_kube_proxy, node_group) ==
    (IF enable_vpc_cni THEN << Addon("vpc_cni", "vpc-cni", << >>) >> ELSE << >>)
    \o (IF enable_coredns
          THEN << Addon("coredns", "coredns",
                        IF node_group.is_none THEN << >> ELSE <<node_group.v>>) >>
          ELSE << >>)
    \o (IF enable_kube_proxy
          THEN << Addon("kube_proxy", "kube-proxy", << >>) >> ELSE << >>)

\* the node group create_eks_addons is given
NodeGroupArgument ==
    IF prog = "create_eks_addons" THEN args.node_group
    ELSE Some(<<args.cluster_name, "-node-group">>)

\* create_eks_addons(...): on its own it returns {"addons": addons}; inside
\* create_eks_resources the result is kept as addons_result
create_eks_addons ==
    /\ prog \in {"create_eks_addons", "eks.functions.create_eks_resources"}
    /\ pc = "addons"
    /\ LET declared == Addons(args.enable_vpc_cni, args.enable_coredns,
                              args.enable_kube_proxy, NodeGroupArgument) IN
         /\ resources' = resources \o declared
         /\ events' = Append(events,
               [ev |-> "addons", attempt |-> Len(resources), outcome |-> "",
                val |-> {declared[i].key : i \in DOMAIN declared}])
         /\ IF prog = "create_eks_addons"
              THEN /\ result' = Returned(
                          [addons |-> {declared[i].key : i \in DOMAIN declared}])
                   /\ pc' = "done"
              ELSE /\ pc' = "return"
                   /\ UNCHANGED result
    /\ UNCHANGED <<idx, prog, args, log, attempt, delay, last_exception>>

\* return {...} of create_eks_resources
create_eks_resources_return ==
    /\ prog = "eks.functions.create_eks_resources" /\ pc = "return"
    /\ result' = Returned(
          [cluster_id |-> OutputOf(<<args.cluster_name, "-cluster">>, "id"),
           cluster_arn |-> OutputOf(<<args.cluster_name, "-cluster">>, "arn"),
           cluster_endpoint |-> OutputOf(<<args.cluster_name, "-cluster">>, "endpoint"),
           node_group_arn |-> OutputOf(<<args.cluster_name, "-node-group">>, "arn"),
           node_group_status |-> OutputOf(<<args.cluster_name, "-node-group">>, "status"),
           addons |-> SelectSeq(events, LAMBDA e : e.ev = "addons")[1].val])
    /\ pc' = "done"
    /\ UNCHANGED <<idx, prog, args, events, log, resources,
                   attempt, delay, last_exception>>

\* ------------------------------------------------- modules/eks/__init__.py
\* log_group = aws.cloudwatch.LogGroup(...)
eks_init_log_group ==
    /\ prog = "eks.create_eks_resources" /\ pc = "log_group"
    /\ resources' = Append(resources, LogGroupResource)
    /\ pc' = "kms"
    /\ UNCHANGED <<idx, prog, args, events, log, result, attempt, delay, last_exception>>

\* if use_existing_kms_key and existing_kms_key_arn:
eks_init_use_existing_kms(use_existing_kms_key, existing_kms_key_arn) ==
    use_existing_kms_key /\ existing_kms_key_arn # ""

\* kms_key_arn = existing_kms_key_arn, or a new aws.kms.Key and aws.kms.Alias
eks_init_kms_key ==
    /\ prog = "eks.create_eks_resources" /\ pc = "kms"
    /\ IF eks_init_use_existing_kms(args.use_existing_kms_key, args.existing_kms_key_arn)
         THEN /\ events' = Append(events, KmsAssign(<<args.existing_kms_key_arn>>))
              /\ UNCHANGED resources
         ELSE /\ resources' = resources \o KmsResources
              /\ events' = Append(events,
                    KmsAssign(OutputOf(<<args.cluster_name, "-eks-kms-key">>, "arn")))
    /\ pc' = "cluster"
    /\ UNCHANGED <<idx, prog, args, log, result, attempt, delay, last_exception>>

\* cluster = aws.eks.Cluster(..., opts=ResourceOptions(depends_on=[log_group]))
eks_init_cluster ==
    /\ prog = "eks.create_eks_resources" /\ pc = "cluster"
    /\ resources' = Append(resources,
          ClusterResource(<< <<args.cluster_name, "-eks-log-group">> >>))
    /\ pc' = "node_group"
    /\ UNCHANGED <<idx, prog, args, events, log, result, attempt, delay, last_exception>>

\* node_group = aws.eks.NodeGroup(..., opts=ResourceOptions(depends_on=[cluster]))
eks_init_node_group ==
    /\ prog = "eks.create_eks_resources" /\ pc = "node_group"
    /\ resources' = Append(resources,
          NodeGroupResource(<< <<args.cluster_name, "-cluster">> >>))
    /\ pc' = "addons"
    /\ UNCHANGED <<idx, prog, args, events, log, result, attempt, delay, last_exception>>

\* addons = {}; the three if blocks; coredns always depends on node_group
eks_init_addons ==
    /\ prog = "eks.create_eks_resources" /\ pc = "addons"
    /\ LET declared ==
             (IF args.enable_vpc_cni
                THEN << Addon("vpc_cni", "vpc-cni", << >>) >> ELSE << >>)
             \o (IF args.enable_coredns
                   THEN << Addon("coredns", "coredns",
                                 << <<args.cluster_name, "-node-group">> >>) >>
                   ELSE << >>)
             \o (IF args.enable_kube_proxy
                   THEN << Addon("kube_proxy", "kube-proxy", << >>) >> ELSE << >>) IN
         /\ resources' = resources \o declared
         /\ events' = Append(events,
               [ev |-> "addons", attempt |-> Len(resources), outcome |-> "",
                val |-> {declared[i].key : i \in DOMAIN declared}])
    /\ pc' = "return"
    /\ UNCHANGED <<idx, prog, args, log, result, attempt, delay, last_exception>>

\* return {...}
eks_init_return ==
    /\ prog = "eks.create_eks_resources" /\ pc = "return"
    /\ result' = Returned(
          [cluster_id |-> OutputOf(<<args.cluster_name, "-cluster">>, "id"),
           cluster_arn |-> OutputOf(<<args.cluster_name, "-cluster">>, "arn"),
           cluster_endpoint |-> OutputOf(<<args.cluster_name, "-cluster">>, "endpoint"),
           node_group_arn |-> OutputOf(<<args.cluster_name, "-node-group">>, "arn"),
           node_group_status |-> OutputOf(<<args.cluster_name, "-node-group">>, "status")])
    /\ pc' = "done"
    /\ UNCHANGED <<idx, prog, args, events, log, resources,
                   attempt, delay, last_exception>>

\* ------------------------------------------- claims: retry_with_backoff
Calls == SelectEv("call")

Sleeps == SelectEv("sleep")

RetryDone == prog = "retry_with_backoff" /\ pc = "done"

RECURSIVE Pow2(_)
Pow2(k) == IF k = 0 THEN 1 ELSE 2 * Pow2(k - 1)

\* C1: for max_retries >= 0, func is called attempt after attempt until a call
\* returns; the result is the value of that first successful call, no call
\* follows a successful one, and func is called at most max_retries + 1 times.
C1_RetryUntilSuccess ==
    (prog = "retry_with_backoff" /\ args.max_retries >= 0) =>
        /\ Len(Calls) <= args.max_retries + 1
        /\ \A k \in 1 .. Len(Calls) : Calls[k].attempt = k - 1
        /\ \A j \in 1 .. Len(events) :
              (events[j].ev = "call" /\ events[j].outcome = "return") =>
                  /\ j = Len(events)
                  /\ pc = "done"
                  /\ result = Returned(events[j].val)
        /\ (pc = "done" /\ result.kind = "return") =>
              /\ Len(events) > 0
              /\ events[Len(events)].ev = "call"
              /\ events[Len(events)].outcome = "return"
        /\ pc # "done" => result = NoResult

C1_Witness ==
    /\ RetryDone /\ args.max_retries >= 0
    /\ result.kind = "return"
    /\ Len(Calls) >= 2
    /\ Calls[1].outcome = "raise"

AllCallsRaised == \A k \in 1 .. Len(Calls) : Calls[k].outcome = "raise"

\* C2: when every call of func raised, func was called exactly
\* max_retries + 1 times and the exception raised is the one of the last
\* attempt; no value is returned.
C2_RaisesLastException ==
    (RetryDone /\ AllCallsRaised) =>
        /\ Len(Calls) = args.max_retries + 1
        /\ result.kind = "raise"
        /\ Len(Calls) > 0 => result.exc = Calls[Len(Calls)].val

C2_Witness ==
    /\ RetryDone /\ AllCallsRaised
    /\ Len(Calls) >= 2
    /\ Calls[1].val # Calls[Len(Calls)].val
    /\ result.kind = "raise"

\* C3: the k-th sleep lasts initial_delay * 2^(k-1); a sleep happens only
\* right after a failed attempt that is not the last one and right before the
\* next attempt; there is no sleep after the final failed attempt or after a
\* successful attempt.
C3_ExponentialBackoff ==
    prog = "retry_with_backoff" =>
        /\ \A k \in 1 .. Len(Sleeps) :
              Sleeps[k].val = args.initial_delay * Pow2(k - 1)
        /\ Len(Sleeps) <= (IF args.max_retries < 0 THEN 0 ELSE args.max_retries)
        /\ \A j \in 1 .. Len(events) :
              /\ events[j].ev = "sleep" =>
                    /\ j > 1
                    /\ events[j - 1].ev = "call"
                    /\ events[j - 1].outcome = "raise"
                    /\ events[j - 1].attempt = events[j].attempt
                    /\ events[j].attempt < args.max_retries
                    /\ j < Len(events) => events[j + 1].ev = "call"
                    /\ j = Len(events) => pc # "done"
              /\ (events[j].ev = "call" /\ events[j].outcome = "raise"
                    /\ events[j].attempt < args.max_retries) =>
                    /\ j < Len(events)
                    /\ events[j + 1].ev = "sleep"
        /\ (pc = "done" /\ Len(events) > 0) => events[Len(events)].ev = "call"

C3_Witness ==
    /\ RetryDone /\ args.initial_delay >= 1
    /\ Len(Sleeps) >= 2
    /\ result.kind = "raise"

\* ------------------------- claims: check_*_exists and create_or_import_*
\* C5: check_s3_bucket_exists and check_dynamodb_table_exists return True
\* when the bucket or table exists and is accessible and False otherwise, and
\* no exception of the lookup leaves them.
C5_CheckExistsNeverRaises ==
    (prog \in CheckProgs /\ pc = "done") =>
        /\ result.kind = "return"
        /\ result.value = (args.world = "accessible")
        /\ Len(events) = 1
        /\ events[1].ev = "lookup"
        /\ events[1].val[2] = args.name

C5_Witness ==
    /\ prog = "check_s3_bucket_exists" /\ pc = "done"
    /\ args.world = "forbidden"
    /\ events[1].outcome = "AccessDenied"
    /\ result = Returned(FALSE)

\* the import option a declared resource carries (None when it has none)
ImportOf(r) ==
    IF r.opts.is_none THEN None
    ELSE IF "import_" \in DOMAIN r.opts.v THEN r.opts.v["import_"] ELSE None

\* C4: create_or_import_s3_bucket and create_or_import_dynamodb_table run the
\* existence check first and then construct exactly one resource, with the
\* import option set to the bucket or table name when the check reports that
\* it exists and with no import option when it reports that it does not.
C4_CheckThenConstructOne ==
    prog \in ImportProgs =>
        /\ Len(resources) > 0 => (Len(events) = 1 /\ events[1].ev = "lookup")
        /\ pc = "done" =>
              /\ Len(resources) = 1
              /\ resources[1].rtype = ResourceType
              /\ ImportOf(resources[1]) =
                    (IF events[1].outcome = "found" THEN args.name ELSE None)

\* ------------------------------------------------ claims: main programs
ModuleOrder == <<"vpc", "iam", "eks", "addons">>

DeclaredBefore(k) == {resources[j].name : j \in 1 .. (k - 1)}

Exports == SelectEv("export")

C7_StateStorageOutputs ==
    (prog = "create_state_storage_resources" /\ pc = "done") =>
        /\ result.kind = "return"
        /\ {"bucket_name_output", "dynamodb_table_name_output",
            "backend_config", "configuration_commands"} \subseteq DOMAIN result.value
        /\ LET bc == result.value.backend_config IN
              /\ {"backend_type", "bucket", "region", "dynamodb_table"} \subseteq DOMAIN bc
              /\ bc.backend_type = "s3"
              /\ bc.region = args.aws_region
              /\ Len(OfType("aws.s3.Bucket")) = 1
              /\ Len(OfType("aws.dynamodb.Table")) = 1
              /\ bc.bucket = OfType("aws.s3.Bucket")[1].props.bucket
              /\ bc.bucket = <<args.cluster_name, "-pulumi-state-", args.aws_region>>
              /\ bc.dynamodb_table = OfType("aws.dynamodb.Table")[1].props.name
              /\ bc.dynamodb_table = <<args.cluster_name, "-pulumi-state-lock">>

C7_Witness ==
    /\ prog = "create_state_storage_resources" /\ pc = "done"
    /\ args.cluster_name = "dev" /\ args.aws_region = "us-east-1"
    /\ result.value.backend_config.bucket = <<"dev", "-pulumi-state-", "us-east-1">>
    /\ Len(resources) = 6

\* -------------------------------------------- claims: create_vpc_resources
VpcCidrs == args.public_subnet_cidrs

\* C8: for n public subnet CIDRs, n not above the number of available zones,
\* create_vpc_resources returns vpc_id, vpc_cidr_block, public_subnet_ids,
\* cluster_security_group_id and node_group_security_group_id, declares
\* exactly n subnets and n route-table associations, gives the i-th subnet the
\* i-th CIDR and the i-th zone, and lists public_subnet_ids in CIDR order.
C8_SubnetsFollowCidrs ==
    (prog = "create_vpc_resources" /\ Len(VpcCidrs) <= Len(args.azs)) =>
        /\ \A j \in 1 .. Len(Subnets) :
              /\ j <= Len(VpcCidrs)
              /\ Subnets[j].props.cidr_block = VpcCidrs[j]
              /\ Subnets[j].props.availability_zone = args.azs[j]
        /\ \A j \in 1 .. Len(Associations) :
              /\ j <= Len(Subnets)
              /\ Len(Subnets) = Len(VpcCidrs)
              /\ Associations[j].props.subnet_id = OutputOf(Subnets[j].name, "id")
        /\ pc = "done" =>
              /\ result.kind = "return"
              /\ {"vpc_id", "vpc_cidr_block", "public_subnet_ids",
                  "cluster_security_group_id", "node_group_security_group_id"}
                     \subseteq DOMAIN result.value
              /\ Len(Subnets) = Len(VpcCidrs)
              /\ Len(Associations) = Len(VpcCidrs)
              /\ Len(result.value.public_subnet_ids) = Len(VpcCidrs)
              /\ \A j \in 1 .. Len(VpcCidrs) :
                    /\ result.value.public_subnet_ids[j] = OutputOf(Subnets[j].name, "id")
                    /\ Subnets[j].name = SubnetName(j - 1)

C8_Witness ==
    /\ prog = "create_vpc_resources" /\ pc = "done"
    /\ Len(VpcCidrs) = 2 /\ Len(args.azs) = 2
    /\ VpcCidrs[1] # VpcCidrs[2]
    /\ Len(Subnets) = 2 /\ Len(Associations) = 2
    /\ result.kind = "return"

\* C10: create_vpc_resources declares the VPC with enable_dns_hostnames and
\* enable_dns_support equal to the values passed and every subnet with
\* map_public_ip_on_launch equal to the value passed.
C10_VpcHonoursFlags ==
    prog = "create_vpc_resources" =>
        /\ \A j \in 1 .. Len(OfType("aws.ec2.Vpc")) :
              /\ OfType("aws.ec2.Vpc")[j].props.dns.enable_dns_hostnames
                    = args.enable_dns_hostnames
              /\ OfType("aws.ec2.Vpc")[j].props.dns.enable_dns_support
                    = args.enable_dns_support
        /\ \A j \in 1 .. Len(Subnets) :
              Subnets[j].props.map_public_ip_on_launch = args.map_public_ip_on_launch

\* -------------------------------------------- claims: create_iam_resources
\* the resources declared for the role named role_name: the role itself and
\* everything attached to it
DeclaredFor(role_name) ==
    SelectSeq(resources, LAMBDA r :
        \/ r.name = role_name
        \/ ("role" \in DOMAIN r.props /\ r.props.role = OutputOf(role_name, "name")))

PolicyArnsFor(role_name) ==
    {r.props.policy_arn : r \in
        {DeclaredFor(role_name)[j] : j \in
            {k \in 1 .. Len(DeclaredFor(role_name)) :
                DeclaredFor(role_name)[k].rtype = "aws.iam.RolePolicyAttachment"}}}

ClusterReferenced ==
    args.use_existing_cluster_role /\ args.existing_cluster_role_name # ""

NodeReferenced ==
    args.use_existing_node_role /\ args.existing_node_role_name # ""

\* C9: create_iam_resources returns cluster_role_arn, cluster_role_name,
\* node_group_role_arn and node_group_role_name; for the cluster role and the
\* node role independently, it references the existing role and declares no
\* role, policy attachment or instance profile for it exactly when the
\* use_existing flag is true and the existing role name is not empty, and
\* otherwise creates the role with its required policy attachments.
C9_ExistingOrNewRoles ==
    (prog = "create_iam_resources" /\ pc = "done") =>
        /\ result.kind = "return"
        /\ {"cluster_role_arn", "cluster_role_name",
            "node_group_role_arn", "node_group_role_name"} \subseteq DOMAIN result.value
        /\ IF ClusterReferenced
             THEN /\ HasLookup("cluster")
                  /\ Len(DeclaredFor(ClusterRoleName)) = 0
                  /\ result.value.cluster_role_arn =
                        DataAttr(args.existing_cluster_role_name, "arn")
                  /\ result.value.cluster_role_name =
                        DataAttr(args.existing_cluster_role_name, "name")
             ELSE /\ ~HasLookup("cluster")
                  /\ Len(DeclaredFor(ClusterRoleName)) = 2
                  /\ DeclaredFor(ClusterRoleName)[1].rtype = "aws.iam.Role"
                  /\ PolicyArnsFor(ClusterRoleName) =
                        {"arn:aws:iam::aws:policy/AmazonEKSClusterPolicy"}
                  /\ result.value.cluster_role_arn = OutputOf(ClusterRoleName, "arn")
                  /\ result.value.cluster_role_name = OutputOf(ClusterRoleName, "name")
        /\ IF NodeReferenced
             THEN /\ HasLookup("node")
                  /\ Len(DeclaredFor(NodeRoleName)) = 0
                  /\ result.value.node_group_role_arn =
                        DataAttr(args.existing_node_role_name, "arn")
                  /\ result.value.node_group_role_name =
                        DataAttr(args.existing_node_role_name, "name")
             ELSE /\ ~HasLookup("node")
                  /\ Len(DeclaredFor(NodeRoleName)) = 6
                  /\ DeclaredFor(NodeRoleName)[1].rtype = "aws.iam.Role"
                  /\ PolicyArnsFor(NodeRoleName) =
                        {"arn:aws:iam::aws:policy/AmazonEKSWorkerNodePolicy",
                         "arn:aws:iam::aws:policy/AmazonEKS_CNI_Policy",
                         "arn:aws:iam::aws:policy/AmazonEC2ContainerRegistryReadOnly",
                         "arn:aws:iam::aws:policy/AmazonSSMManagedInstanceCore"}
                  /\ result.value.node_group_role_arn = OutputOf(NodeRoleName, "arn")
                  /\ result.value.node_group_role_name = OutputOf(NodeRoleName, "name")
        /\ Len(resources) =
              Len(DeclaredFor(ClusterRoleName)) + Len(DeclaredFor(NodeRoleName))

C9_Witness ==
    /\ prog = "create_iam_resources" /\ pc = "done"
    /\ args.use_existing_cluster_role /\ args.existing_cluster_role_name = "shared-eks-role"
    /\ args.use_existing_node_role /\ args.existing_node_role_name = ""
    /\ HasLookup("cluster") /\ ~HasLookup("node")
    /\ Len(resources) = 6

\* --------------------------------- claims: validate_s3_bucket_configuration
\* C11: validate_s3_bucket_configuration never raises; when the bucket lookup
\* fails it returns exists = False with the error text; when it succeeds it
\* returns exists = True, and a failing versioning, encryption or
\* public-access-block sub-check sets only its own field to False.
C11_ValidateNeverRaises ==
    (prog = "validate_s3_bucket_configuration" /\ pc = "done") =>
        /\ result.kind = "return"
        /\ IF args.world # "accessible"
             THEN /\ result.value.exists = FALSE
                  /\ result.value.error = LookupOutcome(args.world)
                  /\ DOMAIN result.value = {"exists", "error"}
             ELSE /\ result.value.exists = TRUE
                  /\ result.value.versioning_enabled =
                        (~args.versioning.raises /\ args.versioning.status = "Enabled")
                  /\ result.value.encryption_enabled =
                        (~args.encryption.raises /\ args.encryption.rules > 0)
                  /\ result.value.public_access_blocked =
                        (/\ ~args.pab.raises
                         /\ args.pab.block_public_acls /\ args.pab.block_public_policy
                         /\ args.pab.ignore_public_acls /\ args.pab.restrict_public_buckets)

C11_Witness ==
    /\ prog = "validate_s3_bucket_configuration" /\ pc = "done"
    /\ args.world = "accessible"
    /\ args.encryption.raises
    /\ ~args.versioning.raises /\ args.versioning.status = "Enabled"
    /\ result.value.exists
    /\ result.value.versioning_enabled
    /\ ~result.value.encryption_enabled
    /\ result.value.public_access_blocked

\* ------------------------------------------------------ claims: email stack
\* the Route53 records the program declared in a domain's zone
ZoneRecords(domain) ==
    SelectSeq(OfType("aws.route53.Record"),
              LAMBDA r : r.props.zone_id = ZoneId(domain))

\* how many records of a DNS type the program declared under an owner name
RecordCount(domain, type, owner) ==
    Len(SelectSeq(ZoneRecords(domain),
                  LAMBDA r : r.props.type = type /\ r.props.name = owner))

\* DKIM records are CNAMEs under _domainkey.<domain>
DkimCount(domain) ==
    Len(SelectSeq(ZoneRecords(domain),
                  LAMBDA r : /\ r.props.type = "CNAME"
                             /\ Len(r.props.name) = 2 + Len(Dotted(domain))
                             /\ r.props.name[2] = "._domainkey."))

\* the records other than DKIM: each exactly once per configured domain
EmailRecordsExceptDkim(domain) ==
    /\ RecordCount(domain, "MX", Dotted(domain)) = 1
    /\ RecordCount(domain, "TXT", Dotted(domain)) = 1
    /\ RecordCount(domain, "TXT", <<"_dmarc.">> \o Dotted(domain)) = 1
    /\ RecordCount(domain, "CNAME", <<"autodiscover.">> \o Dotted(domain)) = 1
    /\ RecordCount(domain, "TXT", <<"_amazonses.">> \o Dotted(domain)) = 1

\* what the program does ensure: every record kind except DKIM, once per domain
EmailStackRecordsExceptDkim ==
    (prog = "infra-email" /\ pc = "done") =>
        \A i \in DOMAIN args.all_domains :
            /\ EmailRecordsExceptDkim(args.all_domains[i])
            /\ DkimCount(args.all_domains[i]) = 0

\* C12: when the email stack has run, every configured domain has its MX,
\* DKIM, SPF, DMARC, autodiscover and SES verification records, each exactly
\* once.
C12_AllDnsRecordsPerDomain ==
    (prog = "infra-email" /\ pc = "done") =>
        \A i \in DOMAIN args.all_domains :
            /\ EmailRecordsExceptDkim(args.all_domains[i])
            /\ DkimCount(args.all_domains[i]) >= 1

\* ------------------------------------------------------ claims: Auth0 stack
\* the URLs the lists must hold: one per configured domain, then one per
\* internal subdomain
ExpectedHosts == args.all_domains \o internal_subdomains

AuthCnames ==
    SelectSeq(OfType("aws.route53.Record"), LAMBDA r : r.props.type = "CNAME")

\* C13: the Auth0 stack declares an auth CNAME record for every configured
\* domain and exactly one Auth0 custom domain, for the primary domain; the
\* callback, logout and web-origin lists hold one entry per configured domain
\* followed by one per internal subdomain, and always have equal length.
C13_Auth0DomainsAndUrls ==
    (prog \in Auth0Progs) =>
        /\ Len(UrlList("callback_urls")) = Len(UrlList("logout_urls"))
        /\ Len(UrlList("logout_urls")) = Len(UrlList("web_origins"))
        /\ (pc = "done") =>
              /\ Len(AuthCnames) = Len(args.all_domains)
              /\ \A i \in DOMAIN args.all_domains :
                    /\ AuthCnames[i].props.zone_id = ZoneId(args.all_domains[i])
                    /\ AuthCnames[i].props.name = <<args.auth_subdomain>>
              /\ Len(OfType("auth0.CustomDomain")) = 1
              /\ OfType("auth0.CustomDomain")[1].props.domain =
                    <<args.auth_subdomain, ".">> \o Dotted(args.primary_domain)
              /\ Len(OfType("auth0.Client")) = 1
              /\ LET app == OfType("auth0.Client")[1].props IN
                   /\ Len(app.callbacks) = Len(ExpectedHosts)
                   /\ Len(app.allowed_logout_urls) = Len(ExpectedHosts)
                   /\ Len(app.web_origins) = Len(ExpectedHosts)
                   /\ \A i \in DOMAIN ExpectedHosts :
                        /\ app.callbacks[i] =
                              <<"https://", args.auth_subdomain, ".">>
                                  \o Dotted(ExpectedHosts[i]) \o <<"/oauth2/callback">>
                        /\ app.allowed_logout_urls[i] =
                              <<"https://", args.auth_subdomain, ".">>
                                  \o Dotted(ExpectedHosts[i])
                        /\ app.web_origins[i] =
                              <<"https://", args.auth_subdomain, ".">>
                                  \o Dotted(ExpectedHosts[i])

C13_Witness ==
    /\ prog = "infra-auth0" /\ pc = "done"
    /\ Len(args.all_domains) = 2
    /\ \A i \in DOMAIN args.all_domains : args.all_domains[i] # args.primary_domain
    /\ Len(AuthCnames) = 2
    /\ Len(OfType("auth0.CustomDomain")) = 1
    /\ Len(OfType("auth0.Client")[1].props.callbacks) = 3

\* -------------------------------------------------------- claims: ECR stack
\* the logical names of the resources the program has declared
DeclaredNames == {resources[i].name : i \in DOMAIN resources}

\* C14: when dockerhub_username or dockerhub_password is not configured, the
\* ECR stack declares no Docker Hub credentials secret and still runs to
\* completion, declaring the k8s cache rule, the repository, the policies and
\* all exports.
C14_DockerhubCredentialsOptional ==
    (prog = "infra-ecr" /\ pc = "done" /\ ~HasDockerhubCredentials) =>
        /\ <<"dockerhub-credentials">> \notin DeclaredNames
        /\ result.kind # "raise"
        /\ {<<"k8s-cache">>, <<"custom-apps">>, <<"custom-apps-lifecycle">>,
            <<"ecr-push-policy">>} \subseteq DeclaredNames
        /\ Len(SelectEv("export")) = Len(EcrExportNames)

\* with both credentials configured the program runs to its last export
EcrCompletesWithCredentials ==
    (prog = "infra-ecr" /\ pc = "done" /\ HasDockerhubCredentials) =>
        /\ result.kind # "raise"
        /\ {<<"dockerhub-credentials">>, <<"dockerhub-cache">>, <<"k8s-cache">>,
            <<"custom-apps">>, <<"ecr-push-policy">>} \subseteq DeclaredNames
        /\ Len(SelectEv("export")) = Len(EcrExportNames)

\* ----------------------------------------------------- claims: Aurora stack
\* C15: when any one of vpc_id, subnet_1_id, subnet_2_id and subnet_3_id is
\* missing from configuration, the Aurora stack raises the 'Required config'
\* exception before declaring any resource.
C15_RequiresAllFourIds ==
    (prog = "aurora" /\ pc # "config" /\ RequiredConfigAllFour(args)) =>
        /\ result = Raised("Required config: vpc_id, subnet_1_id, subnet_2_id, subnet_3_id")
        /\ resources = << >>

\* what the guard does ensure: vpc_id and subnet_1_id are required
AuroraRequiresVpcAndFirstSubnet ==
    (prog = "aurora" /\ pc # "config") =>
        (RequiredConfigMissing(args) <=>
            /\ result = Raised("Required config: vpc_id, subnet_1_id, subnet_2_id, subnet_3_id")
            /\ resources = << >>)

\* -------------------------------------------------------- claims: k8s stack
\* the first issuer the cluster offers: identities[0].oidcs[0].issuer, else
\* identities[0].oidc.issuer
OfferedIssuer(ci) ==
    IF ci.identities_kind # "list" \/ Len(ci.identities) = 0 THEN NoneVal
    ELSE LET ident == ci.identities[1]
             new == ident.has_oidcs /\ Len(ident.oidcs) > 0
                       /\ ident.oidcs[1].has_issuer /\ ~ident.oidcs[1].issuer.is_none
             old == ident.has_oidc /\ ident.oidc.has_issuer /\ ~ident.oidc.issuer.is_none
         IN  IF new THEN ident.oidcs[1].issuer
             ELSE IF old THEN ident.oidc.issuer
             ELSE NoneVal

OidcResources ==
    SelectSeq(resources,
              LAMBDA r : r.rtype \in {"aws.iam.OpenIdConnectProvider", "aws.iam.Role"})

C16_WitnessOverride ==
    /\ prog = "infra-k8s" /\ pc = "done"
    /\ Truthy(args.oidc_issuer_override)
    /\ ~OfferedIssuer(args.cluster_info).is_none
    /\ OfType("aws.iam.OpenIdConnectProvider")[1].props.url
          = "https://oidc.example/override"

\* ----------------------------------------------------------- claims: Config
PropertyValue(name) ==
    SelectSeq(events, LAMBDA e : e.ev = "property" /\ e.outcome = name)[1].val

\* the flag as configured: true only when it is set to true
SpotConfigured == ~args.enable_spot_instances.is_none /\ args.enable_spot_instances.v

\* C17: capacity_type is "SPOT" exactly when enable_spot_instances is true and
\* "ON_DEMAND" otherwise; optimized_instance_types is the fixed spot list when
\* the flag is true and the configured node_instance_types otherwise; both
\* follow the same flag value.
C17_SpotProperties ==
    (prog = "Config" /\ pc \in {"estimated_monthly_cost", "done"}) =>
        /\ result.value.enable_spot_instances = SpotConfigured
        /\ PropertyValue("capacity_type") \in {"SPOT", "ON_DEMAND"}
        /\ (PropertyValue("capacity_type") = "SPOT") <=> SpotConfigured
        /\ SpotConfigured =>
              PropertyValue("optimized_instance_types")
                 = <<"t4g.small", "t3.small", "t2.small">>
        /\ ~SpotConfigured =>
              PropertyValue("optimized_instance_types")
                 = result.value.node_instance_types
        /\ (~args.node_instance_types.is_none /\ Len(args.node_instance_types.v) > 0) =>
              result.value.node_instance_types = args.node_instance_types.v

C17_Witness ==
    /\ prog = "Config" /\ pc = "done"
    /\ SpotConfigured
    /\ args.node_instance_types = Some(<<"m5.large">>)
    /\ PropertyValue("capacity_type") = "SPOT"
    /\ PropertyValue("optimized_instance_types") = <<"t4g.small", "t3.small", "t2.small">>

\* ----------------------------------- claims: IAMResources / create_iam_resources
\* what create_iam_resources declares for the arguments of this run
create_iam_resources_declares ==
    (IF UseExisting(args.use_existing_cluster_role, args.existing_cluster_role_name)
       THEN << >> ELSE create_cluster_role_declares)
    \o
    (IF UseExisting(args.use_existing_node_role, args.existing_node_role_name)
       THEN << >> ELSE create_node_group_role_declares)

\* the four role outputs create_iam_resources returns for these arguments
create_iam_resources_outputs ==
    LET cluster(attr) ==
          IF UseExisting(args.use_existing_cluster_role, args.existing_cluster_role_name)
            THEN DataAttr(args.existing_cluster_role_name, attr)
            ELSE OutputOf(ClusterRoleName, attr)
        node(attr) ==
          IF UseExisting(args.use_existing_node_role, args.existing_node_role_name)
            THEN DataAttr(args.existing_node_role_name, attr)
            ELSE OutputOf(NodeRoleName, attr)
    IN  [cluster_role_arn |-> cluster("arn"), cluster_role_name |-> cluster("name"),
         node_group_role_arn |-> node("arn"), node_group_role_name |-> node("name")]

RoleOutputs(value) ==
    [cluster_role_arn |-> value.cluster_role_arn,
     cluster_role_name |-> value.cluster_role_name,
     node_group_role_arn |-> value.node_group_role_arn,
     node_group_role_name |-> value.node_group_role_name]

RECURSIVE Str(_)
\* the string an f-string's parts make
Str(parts) == IF Len(parts) = 0 THEN "" ELSE Head(parts) \o Str(Tail(parts))

\* what identifies a declared IAM resource: type, logical name, role name,
\* trusted service and attached policy
IamSummary(r) ==
    [rtype |-> r.rtype,
     logical |-> Str(r.name),
     role_name |-> IF r.rtype = "aws.iam.RolePolicyAttachment"
                     THEN Str(r.props.role[2]) ELSE Str(r.props.name),
     service |-> IF r.rtype = "aws.iam.Role" THEN r.props.service ELSE "",
     policy_arn |-> IF r.rtype = "aws.iam.RolePolicyAttachment"
                      THEN r.props.policy_arn ELSE ""]

IamSummaries(rs) == {IamSummary(rs[i]) : i \in DOMAIN rs}

\* C18: for every combination of use_existing_cluster_role,
\* existing_cluster_role_name, use_existing_node_role and
\* existing_node_role_name, IAMResources and create_iam_resources declare the
\* same IAM resources (logical names, role names, attached policy ARNs) and
\* expose the same cluster and node-group role ARN and name outputs.
C18_IamModulesEquivalent ==
    (prog \in {"IAMResources", "create_iam_resources"} /\ pc = "done") =>
        /\ Len(resources) = Len(create_iam_resources_declares)
        /\ IamSummaries(resources) = IamSummaries(create_iam_resources_declares)
        /\ RoleOutputs(result.value) = create_iam_resources_outputs

C18_Witness ==
    /\ prog = "IAMResources" /\ pc = "done"
    /\ args.use_existing_cluster_role /\ args.existing_cluster_role_name = ""
    /\ args.use_existing_node_role /\ args.existing_node_role_name # ""
    /\ Len(resources) = 2
    /\ result.value.node_group_role_arn = DataAttr(args.existing_node_role_name, "arn")

\* ---------------------------------------------- claims: create_eks_resources
ClusterKeyArn == OfType("aws.eks.Cluster")[1].props.encryption_key_arn

\* C19: create_eks_resources uses the existing KMS key and declares no KMS
\* key or alias exactly when use_existing_kms_key is true and
\* existing_kms_key_arn is non-empty; in every other case it declares a new
\* key and alias and encrypts cluster secrets with the new key. The
\* function-based and the module version make the same choice for every input.
C19_ExistingKmsKeyChoice ==
    (prog \in EksProgs /\ pc = "done") =>
        IF args.use_existing_kms_key /\ args.existing_kms_key_arn # ""
          THEN /\ Len(OfType("aws.kms.Key")) = 0
               /\ Len(OfType("aws.kms.Alias")) = 0
               /\ ClusterKeyArn = <<args.existing_kms_key_arn>>
          ELSE /\ Len(OfType("aws.kms.Key")) = 1
               /\ Len(OfType("aws.kms.Alias")) = 1
               /\ ClusterKeyArn = OutputOf(OfType("aws.kms.Key")[1].name, "arn")
               /\ OfType("aws.eks.Cluster")[1].props.encryption_resources = <<"secrets">>

C19_Witness ==
    /\ prog = "eks.functions.create_eks_resources" /\ pc = "done"
    /\ ~args.use_existing_kms_key /\ args.existing_kms_key_arn # ""
    /\ Len(OfType("aws.kms.Key")) = 1
    /\ ClusterKeyArn = OutputOf(<<args.cluster_name, "-eks-kms-key">>, "arn")

C19_WitnessExisting ==
    /\ prog = "eks.create_eks_resources" /\ pc = "done"
    /\ args.use_existing_kms_key /\ args.existing_kms_key_arn # ""
    /\ Len(OfType("aws.kms.Key")) = 0
    /\ ClusterKeyArn = <<args.existing_kms_key_arn>>

\* ------------------------------------------------- claims: create_eks_addons
EnabledAddons ==
    {k \in {"vpc_cni", "coredns", "kube_proxy"} :
        \/ k = "vpc_cni" /\ args.enable_vpc_cni
        \/ k = "coredns" /\ args.enable_coredns
        \/ k = "kube_proxy" /\ args.enable_kube_proxy}

AddonNameOf(key) ==
    IF key = "vpc_cni" THEN "vpc-cni"
    ELSE IF key = "coredns" THEN "coredns" ELSE "kube-proxy"

\* the positions of the resources of a type in the order of declaration
PositionsOf(t) == {i \in DOMAIN resources : resources[i].rtype = t}

\* C20: create_eks_addons declares each of the vpc-cni, coredns and kube-proxy
\* add-ons exactly when its enable flag is true, so the keys of the returned
\* addons mapping are the enabled add-ons; coredns depends on the node group
\* whenever one is supplied; no add-on is declared before the cluster and the
\* node group.
C20_AddonsFollowFlags ==
    (prog \in {"create_eks_addons", "eks.functions.create_eks_resources"}
        /\ pc = "done") =>
        /\ result.value.addons = EnabledAddons
        /\ Len(OfType("aws.eks.Addon")) = Cardinality(EnabledAddons)
        /\ \A k \in EnabledAddons :
              \E i \in PositionsOf("aws.eks.Addon") :
                 /\ resources[i].key = k
                 /\ resources[i].props.addon_name = AddonNameOf(k)
        /\ \A i \in PositionsOf("aws.eks.Addon") :
              /\ resources[i].key = "coredns" /\ ~NodeGroupArgument.is_none
                    => resources[i].opts.depends_on = <<NodeGroupArgument.v>>
              /\ \A j \in PositionsOf("aws.eks.Cluster") \cup PositionsOf("aws.eks.NodeGroup") :
                    j < i
        /\ (prog = "eks.functions.create_eks_resources") =>
              /\ Len(OfType("aws.eks.Cluster")) = 1
              /\ Len(OfType("aws.eks.NodeGroup")) = 1

C20_Witness ==
    /\ prog = "eks.functions.create_eks_resources" /\ pc = "done"
    /\ args.enable_coredns /\ ~args.enable_vpc_cni /\ args.enable_kube_proxy
    /\ result.value.addons = {"coredns", "kube_proxy"}
    /\ \E i \in PositionsOf("aws.eks.Addon") :
          resources[i].opts.depends_on = << <<args.cluster_name, "-node-group">> >>

\* ---------------------------------------------------------- specification
Init ==
    \/ InitRetry
    \/ InitCheck
    \/ InitImport
    \/ InitMain
    \/ InitStateStorage
    \/ InitVpc
    \/ InitIam
    \/ InitValidate
    \/ InitEmail
    \/ InitAuth0
    \/ InitEcr
    \/ InitAurora
    \/ InitK8s
    \/ InitConfig
    \/ InitIAMResources
    \/ InitEks

Next ==
    \/ \E v \in FuncValues : retry_func_returns(v)
    \/ \E e \in FuncExceptions : retry_func_raises(e)
    \/ retry_raise_last
    \/ check_exists
    \/ create_or_import_check
    \/ create_or_import_import
    \/ create_or_import_create
    \/ main_setup
    \/ main_module
    \/ main_export
    \/ main_return
    \/ create_s3_bucket
    \/ configure_s3_bucket_settings
    \/ create_dynamodb_table
    \/ create_state_storage_return
    \/ create_vpc
    \/ create_internet_gateway
    \/ create_public_subnets
    \/ create_public_route_table
    \/ create_route_table_association
    \/ create_cluster_security_group
    \/ create_node_security_group
    \/ create_vpc_resources_return
    \/ get_existing_cluster_role
    \/ create_cluster_role
    \/ get_existing_node_role
    \/ create_node_group_role
    \/ create_iam_resources_return
    \/ validate_s3_bucket
    \/ validate_dynamodb_table
    \/ email_ses_domain
    \/ email_workmail_domain
    \/ email_exports
    \/ auth0_callbacks_domain
    \/ auth0_callbacks_internal
    \/ auth0_client
    \/ auth0_roles
    \/ auth0_cname_domain
    \/ auth0_custom_domain
    \/ auth0_exports
    \/ ecr_dockerhub_secret
    \/ ecr_dockerhub_cache
    \/ ecr_k8s_cache
    \/ ecr_repository
    \/ ecr_policies
    \/ ecr_exports
    \/ aurora_require_config
    \/ aurora_network
    \/ aurora_cluster
    \/ aurora_instance
    \/ aurora_second_subnet_group
    \/ k8s_api_dns
    \/ k8s_oidc_issuer
    \/ k8s_oidc_provider
    \/ k8s_irsa_roles
    \/ k8s_workloads
    \/ Config_init
    \/ Config_capacity_type
    \/ Config_optimized_instance_types
    \/ Config_estimated_monthly_cost
    \/ IAMResources_cluster_role
    \/ IAMResources_node_group_role
    \/ IAMResources_properties
    \/ create_cloudwatch_log_group
    \/ create_kms_key
    \/ create_eks_cluster
    \/ create_node_group
    \/ create_eks_addons
    \/ create_eks_resources_return
    \/ eks_init_log_group
    \/ eks_init_kms_key
    \/ eks_init_cluster
    \/ eks_init_node_group
    \/ eks_init_addons
    \/ eks_init_return

Spec == Init /\ [][Next]_vars

====
